---- MODULE Spec2Model ----
(***************************************************************************)
(* dpnd: the reconciliation engine of src/src/install.rs.                  *)
(*                                                                         *)
(* A file is a sequence of lines; a dependency line is the sequence of its *)
(* whitespace-separated words, the output-directory line the sequence of   *)
(* its '/'-separated parts.  A directory path is the sequence of the       *)
(* dependency names that lead to it from the top-level project: <<>> is    *)
(* the top-level project, <<"a">> is <output_dir>/a, <<"a","b">> is        *)
(* <output_dir>/a/<output_dir>/b.  A project is named by the path of the   *)
(* directory that holds its manifest.                                      *)
(***************************************************************************)
EXTENDS Naturals, Sequences, FiniteSets, TLC

\* ------------------------------------------------------------ bounds
\* Number of invocations of `install` in one behaviour.
MaxRuns == 2
\* Deepest dependency directory the file system accepts; create_dir fails
\* below it (the path is too long).
MaxDepth == 3
\* Deepest working directory from which install is run.
MaxUp == 3
\* Longest manifest, in bytes, handed to String::from_utf8.
MaxBytes == 4

\* ------------------------------------------------------- the universe
Names == {"a", "b", "c"}
NoName == "-"

\* `.`: every character of it is in [a-zA-Z0-9._-], so it passes as a
\* dependency name; output_dir.join(".") names the output directory itself.
CurDir == "."

deps_file_name == "dpnd.txt"
state_file_name == "current_dpnd.txt"
\* The registry of fetch tools: only "git" is registered.
tools == {"git"}

Dep(s, v) == [tool |-> "git", source |-> s, version |-> v]
NoDep == [tool |-> "-", source |-> "-", version |-> "-"]
EmptyMap == [n \in {} |-> NoDep]

\* A dependency line as write_state_file formats it and a manifest holds it.
DepLine(name, dep) == <<name, dep.tool, dep.source, dep.version>>

Text(lines) == [kind |-> "text", lines |-> lines]
BadUtf8 == [kind |-> "badutf8", lines |-> <<>>]
NoFile == [kind |-> "none", lines |-> <<>>]

\* A manifest text: the output directory `deps`, an empty line, the deps.
ManifestOf(deplines) == Text(<<<<"deps">>, <<>>>> \o deplines)

\* The remote repositories: the manifest (if any) in the tree of a source at
\* a version.  "leaf" has none; "mid" depends on leaf; "lib" on mid (double
\* nesting); "cyc" on itself; "bad" holds a manifest with a 5-word line (v1)
\* or invalid UTF-8 (v2).
RemoteManifest(dep) ==
    CASE dep.source = "mid" ->
            ManifestOf(<<DepLine("b", Dep("leaf", dep.version))>>)
      [] dep.source = "lib" ->
            ManifestOf(<<DepLine("a", Dep("mid", "v1"))>>)
      [] dep.source = "cyc" ->
            ManifestOf(<<DepLine("a", Dep("cyc", dep.version))>>)
      [] dep.source = "bad" /\ dep.version = "v1" ->
            ManifestOf(<<<<"a", "git", "leaf", "v1", "extra">>>>)
      [] dep.source = "bad" /\ dep.version # "v1" -> BadUtf8
      [] OTHER -> NoFile

\* The top-level manifests the user switches between.
TopManifests ==
    { ManifestOf(<<>>),
      ManifestOf(<<DepLine("c", Dep("leaf", "v1"))>>),
      ManifestOf(<<DepLine("a", Dep("lib", "v1")),
                   <<"#", "comment">>,
                   DepLine("b", Dep("leaf", "v1"))>>),
      ManifestOf(<<DepLine("a", Dep("lib", "v1")),
                   DepLine("b", Dep("leaf", "v2"))>>),
      ManifestOf(<<DepLine("a", Dep("cyc", "v1"))>>),
      ManifestOf(<<DepLine("a", Dep("bad", "v1")),
                   DepLine("b", Dep("mid", "v1"))>>),
      ManifestOf(<<<<"proj", "tool", "source", "version", "extra">>>>),
      BadUtf8,
      Text(<<>>),
      Text(<<<<"deps", "..">>>>),
      ManifestOf(<<DepLine("my!dep", Dep("leaf", "v1"))>>),
      ManifestOf(<<DepLine(state_file_name, Dep("leaf", "v1"))>>),
      ManifestOf(<<DepLine("a", Dep("leaf", "v1")),
                   DepLine("a", Dep("leaf", "v2"))>>),
      ManifestOf(<<<<"a", "hg", "leaf", "v1">>>>),
      ManifestOf(<<DepLine("a", Dep("leaf", "v1")),
                   DepLine(CurDir, Dep("leaf", "v1"))>>) }

\* ------------------------------------------------------------ parsing
conf_line_is_skippable(ln) == ln = <<>> \/ ln[1] = "#"

\* bad_dep_name_chars.find: names of the universe with a character outside
\* [a-zA-Z0-9._-].
bad_dep_name_chars(name) == name \in {"my!dep"}

NoErr == [kind |-> "none", ln_num |-> 0, dep_name |-> NoName]
ParseErr(kind, ln_num, dep_name) ==
    [kind |-> kind, ln_num |-> ln_num, dep_name |-> dep_name]

\* dep_defns.into_iter().collect(): the map of the definitions.
CollectDeps(dep_defns) ==
    [n \in {dep_defns[k].name : k \in 1..Len(dep_defns)} |->
        LET k == CHOOSE j \in 1..Len(dep_defns) :
                    /\ dep_defns[j].name = n
                    /\ \A m \in (j+1)..Len(dep_defns) : dep_defns[m].name # n
        IN dep_defns[k].dep]

RECURSIVE parse_deps_from(_, _, _)
\* parse_deps over the lines from index i on (i is the 1-based line number).
parse_deps_from(lines, i, dep_defns) ==
    IF i > Len(lines)
    THEN [ok |-> TRUE, deps |-> CollectDeps(dep_defns), err |-> NoErr]
    ELSE LET ln == lines[i]
             Bad(kind, name) ==
                 [ok |-> FALSE, deps |-> EmptyMap, err |-> ParseErr(kind, i, name)]
         IN IF conf_line_is_skippable(ln)
            THEN parse_deps_from(lines, i + 1, dep_defns)
            ELSE IF Len(ln) # 4
            THEN Bad("InvalidDepSpec", NoName)
            ELSE IF bad_dep_name_chars(ln[1])
            THEN Bad("DepNameContainsInvalidChar", ln[1])
            ELSE IF ln[1] = state_file_name
            THEN Bad("ReservedDepName", ln[1])
            ELSE IF \E k \in 1..Len(dep_defns) : dep_defns[k].name = ln[1]
            THEN Bad("DupDepName", ln[1])
            ELSE IF ln[2] \notin tools
            THEN Bad("UnknownTool", ln[1])
            ELSE parse_deps_from(lines, i + 1,
                    Append(dep_defns,
                           [name |-> ln[1],
                            dep |-> [tool |-> ln[2], source |-> ln[3],
                                     version |-> ln[4]],
                            ln_num |-> i]))

parse_deps(lines, start) == parse_deps_from(lines, start, <<>>)

RECURSIVE parse_output_dir_from(_, _)
\* parse_output_dir: the first non-skippable line, as its '/'-separated parts;
\* `next` is the index of the line after it.
parse_output_dir_from(lines, i) ==
    IF i > Len(lines)
    THEN [ok |-> FALSE, output_dir |-> <<>>, next |-> i,
          err |-> ParseErr("MissingOutputDir", 0, NoName)]
    ELSE IF conf_line_is_skippable(lines[i])
    THEN parse_output_dir_from(lines, i + 1)
    ELSE IF \E k \in 1..Len(lines[i]) : lines[i][k] \in {".", ".."}
    THEN [ok |-> FALSE, output_dir |-> <<>>, next |-> i,
          err |-> ParseErr("InvalidPart", i, NoName)]
    ELSE [ok |-> TRUE, output_dir |-> lines[i], next |-> i + 1, err |-> NoErr]

\* A parser that accepts every text as a manifest without dependencies.
AcceptAll(lines) ==
    [ok |-> TRUE, output_dir |-> <<"deps">>, deps |-> EmptyMap, err |-> NoErr]

parse_deps_conf(lines) ==
    LET od == parse_output_dir_from(lines, 1)
        ds == parse_deps(lines, od.next)
    IN IF ~od.ok
       THEN [ok |-> FALSE, output_dir |-> <<>>, deps |-> EmptyMap, err |-> od.err]
       ELSE IF ~ds.ok
       THEN [ok |-> FALSE, output_dir |-> <<>>, deps |-> EmptyMap, err |-> ds.err]
       ELSE [ok |-> TRUE, output_dir |-> od.output_dir, deps |-> ds.deps,
             err |-> NoErr]

\* ----------------------------------------------------------- planning
\* The sequences that enumerate the set S once each: the orders in which a
\* HashMap may iterate.
Orders(S) ==
    {s \in [1..Cardinality(S) -> S] :
        \A i, j \in 1..Cardinality(S) : i # j => s[i] # s[j]}

Action(kind, name) == [kind |-> kind, name |-> name]
NoAction == Action("none", NoName)

\* A planner that compares names only: a changed triple is not reinstalled.
InstallNamesAbsentOnly(cur, new) == {n \in DOMAIN new : n \notin DOMAIN cur}

\* The names for which the first loop of `actions` pushes Install.
InstallNames(cur, new) ==
    {n \in DOMAIN new :
        IF n \in DOMAIN cur
        THEN \/ cur[n].tool # new[n].tool
             \/ cur[n].source # new[n].source
             \/ cur[n].version # new[n].version
        ELSE TRUE}

\* A planner without its second loop: nothing is ever removed.
NoRemoveNames(cur, new) == {n \in DOMAIN cur : n \notin DOMAIN cur}

\* The names for which the second loop of `actions` pushes Remove.
RemoveNames(cur, new) == {n \in DOMAIN cur : n \notin DOMAIN new}

\* A planner that pushes the Removes first.
RemovesFirst(cur, new) ==
    {[k \in 1..Len(r) |-> Action("Remove", r[k])]
        \o [k \in 1..Len(i) |-> Action("Install", i[k])] :
        i \in Orders(InstallNames(cur, new)), r \in Orders(RemoveNames(cur, new))}

\* The vectors `actions` may return: the Installs in the iteration order of
\* new_deps, then the Removes in the iteration order of cur_deps.
actions(cur, new) ==
    {[k \in 1..Len(i) |-> Action("Install", i[k])]
        \o [k \in 1..Len(r) |-> Action("Remove", r[k])] :
        i \in Orders(InstallNames(cur, new)), r \in Orders(RemoveNames(cur, new))}

\* -------------------------------------------------------------- state
VARIABLES
    \* the disk
    manifest,           \* the top-level manifest file
    dirs,               \* dependency directory path -> what it holds
    ledgers,            \* project path -> the lines of its ledger file
    outdirs,            \* the projects whose output directory exists
    \* the running process (install, install_proj_deps, install_deps)
    pc, recurse, projs, proj, conf, cur_deps, new_deps, state_file_exists,
    acts, act, new_dep, wtodo, wret, result,
    \* history of the run, read by the properties only
    runs,               \* invocations of install so far
    failure,            \* the step that failed in this run
    fetchCnt,           \* directory path -> invocations of fetch in this run
    fetchedRun,         \* directories whose fetch returned Ok in this run
    startOk,            \* the ledger matched the disk when install_deps began
    plan,               \* the actions `actions` returned for this project
    ops,                \* mutations made while reconciling this project
    snap,               \* ledger and directories when install_deps began
    again,              \* same manifest as the previous run, whose top-level
                        \* reconciliation returned Ok
    topOk,              \* the top-level reconciliation of this run returned Ok
    okConf,             \* project path -> deps, reconciled Ok in this run
    visited,            \* the project directories popped in this run
    probed,             \* directories probed for a nested manifest in this run
    started,            \* names whose action this project's loop has popped
    processed,          \* names whose action ran to completion
    \* the discovery of the manifest (read_deps_file)
    cwd,                \* the working directory: the names from the root
    chain,              \* what is at <ancestor>/dpnd.txt, for the ancestor
                        \* of each depth 0..Len(cwd) (0 is the root)
    \* history across runs
    prev,               \* the fetch failure that ended the run before, when
                        \* this run has the same manifest and flag
    \* the output of main
    stderr              \* the parts of the message main printed for an
                        \* invalid UTF-8 manifest (<<>>: none printed)

disk == <<manifest, dirs, ledgers, outdirs>>
mem == <<recurse, projs, proj, conf, cur_deps, new_deps, state_file_exists,
         acts, act, new_dep, wtodo, wret>>
hist == <<runs, failure, fetchCnt, fetchedRun, startOk, plan, ops, snap,
          again, topOk, okConf, visited, probed, started, processed>>
walk == <<cwd, chain>>
vars == <<disk, pc, result, mem, hist, walk, prev, stderr>>

IsPrefix(p, q) == Len(p) <= Len(q) /\ SubSeq(q, 1, Len(p)) = p

\* What a directory holds: the tree of `dep` ("ok"), nothing yet ("empty"),
\* or what a failed fetch or a failed removal left of the tree ("partial");
\* "file" is a regular file at the path of a directory.
Holds(state, dep) == [state |-> state, dep |-> dep]

\* A removal of the directory alone: what was below it stays.
RemoveDirOnly(f, path) == [q \in DOMAIN f \ {path} |-> f[q]]

\* fs::remove_dir_all(path) succeeded: the directory and all below it is gone.
RemoveTree(f, path) == [q \in {x \in DOMAIN f : ~IsPrefix(path, x)} |-> f[q]]
RemoveTreeSet(S, path) == {x \in S : ~IsPrefix(path, x)}
\* fs::remove_dir_all(path) emptied the directory and failed to remove the
\* directory itself: all below it is gone.
RemoveBelow(f, path) ==
    [q \in {x \in DOMAIN f : ~(IsPrefix(path, x) /\ x # path)} |-> f[q]]
RemoveBelowSet(S, path) == {x \in S : ~(IsPrefix(path, x) /\ x # path)}

Put(f, k, v) == (k :> v) @@ f

NoProj == [proj_dir |-> <<>>, dep_name |-> NoName, raw |-> NoFile]
NoFailure == [op |-> "none", dep_name |-> NoName, proj_dir |-> <<>>,
              injected |-> FALSE]
NoOps == [rm |-> 0, mk |-> 0, wr |-> 0, fetch |-> 0, git |-> <<>>]
NoSnap == [exists |-> FALSE, lines |-> <<>>, children |-> EmptyMap]

Ok == [ok |-> TRUE, kind |-> "Ok", dep_name |-> NoName, nested |-> NoName,
       cause |-> "-"]
\* install has not returned yet.
NoResult == [ok |-> FALSE, kind |-> "none", dep_name |-> NoName,
             nested |-> NoName, cause |-> "-"]
Err(kind, dep_name, nested, cause) ==
    [ok |-> FALSE, kind |-> kind, dep_name |-> dep_name, nested |-> nested,
     cause |-> cause]

\* The ledger of project p as install_proj_deps reads and parses it.
LedgerLines(p) == IF p \in DOMAIN ledgers THEN ledgers[p] ELSE <<>>

\* A word of bytes that are not valid UTF-8.
BadBytes == "\\xFF"
\* A decoder that accepts every byte sequence.
AnyBytesOk(ls) == TRUE
\* String::from_utf8(state_file_conts) is Ok.
from_utf8_ok(ls) ==
    \A k \in 1..Len(ls) : \A j \in 1..Len(ls[k]) : ls[k][j] # BadBytes
\* What a hand edit or a damaged disk may leave in a ledger file: bytes
\* that are not UTF-8, a line of 5 fields, a tool that is not registered.
BadLedgers ==
    { <<<<"a", "git", BadBytes, "v1">>>>,
      <<<<"a", "git", "leaf", "v1", "extra">>>>,
      <<<<"a", "hg", "leaf", "v1">>>> }
Children(p) == {n \in Names : Append(p, n) \in DOMAIN dirs}

\* The ledger of p agrees with the disk: it parses, and its names are exactly
\* the dependency directories of p, each holding the tree of its line.
Matches(p) ==
    LET cur == parse_deps(LedgerLines(p), 1)
    IN /\ cur.ok
       /\ Children(p) = DOMAIN cur.deps
       /\ \A n \in DOMAIN cur.deps :
            dirs[Append(p, n)] = Holds("ok", cur.deps[n])

Init ==
    /\ cwd = <<>>
    /\ chain = <<>>
    /\ prev = NoFailure
    /\ stderr = <<>>
    /\ manifest = ManifestOf(<<>>)
    /\ dirs = [q \in {} |-> Holds("empty", NoDep)]
    /\ ledgers = [q \in {} |-> <<>>]
    /\ outdirs = {}
    /\ pc = "idle"
    /\ result = NoResult
    /\ recurse = FALSE
    /\ projs = <<>>
    /\ proj = NoProj
    /\ conf = EmptyMap
    /\ cur_deps = EmptyMap
    /\ new_deps = EmptyMap
    /\ state_file_exists = FALSE
    /\ acts = <<>>
    /\ act = NoAction
    /\ new_dep = NoDep
    /\ wtodo = {}
    /\ wret = "-"
    /\ runs = 0
    /\ failure = NoFailure
    /\ fetchCnt = [q \in {} |-> 0]
    /\ fetchedRun = {}
    /\ startOk = FALSE
    /\ plan = {}
    /\ ops = NoOps
    /\ snap = NoSnap
    /\ again = FALSE
    /\ topOk = FALSE
    /\ okConf = [q \in {} |-> EmptyMap]
    /\ visited = <<>>
    /\ probed = {}
    /\ started = {}
    /\ processed = {}

\* The process ends (install returns, or the process dies): its memory is gone.
Return(res) ==
    /\ pc' = "done"
    /\ result' = res
    /\ projs' = <<>>
    /\ proj' = NoProj
    /\ conf' = EmptyMap
    /\ cur_deps' = EmptyMap
    /\ new_deps' = EmptyMap
    /\ state_file_exists' = FALSE
    /\ acts' = <<>>
    /\ act' = NoAction
    /\ new_dep' = NoDep
    /\ wtodo' = {}
    /\ wret' = "-"
    /\ UNCHANGED recurse

\* A failure that is swallowed: the step is recorded but install returns Ok.
FailOk(op, dep_name, proj_dir, injected, res) ==
    /\ failure' = [op |-> op, dep_name |-> dep_name,
                   proj_dir |-> proj_dir, injected |-> injected]
    /\ Return(Ok)

\* A failure after which the loop of install goes on with the next entry.
FailContinue(op, dep_name, proj_dir, injected, res) ==
    /\ failure' = [op |-> op, dep_name |-> dep_name,
                   proj_dir |-> proj_dir, injected |-> injected]
    /\ pc' = "loop"
    /\ result' = res
    /\ proj' = NoProj
    /\ conf' = EmptyMap
    /\ cur_deps' = EmptyMap
    /\ new_deps' = EmptyMap
    /\ state_file_exists' = FALSE
    /\ acts' = <<>>
    /\ act' = NoAction
    /\ new_dep' = NoDep
    /\ wtodo' = {}
    /\ wret' = "-"
    /\ UNCHANGED <<recurse, projs>>

\* A step of the run failed: the error is returned through every caller.
Fail(op, dep_name, proj_dir, injected, res) ==
    /\ failure' = [op |-> op, dep_name |-> dep_name,
                   proj_dir |-> proj_dir, injected |-> injected]
    /\ Return(res)

\* The user edits the manifest (or not) and runs `dpnd install [-r]`:
\* install up to the seeding of the worklist.
StartRun(m, r) ==
    /\ UNCHANGED <<walk, stderr>>
    /\ prev' = IF failure.op = "fetch" /\ m = manifest /\ r = recurse
               THEN failure ELSE NoFailure
    /\ pc \in {"idle", "done"}
    /\ runs < MaxRuns
    /\ manifest' = m
    /\ recurse' = r
    /\ projs' = <<[proj_dir |-> <<>>, dep_name |-> NoName, raw |-> m]>>
    /\ pc' = "loop"
    /\ runs' = runs + 1
    /\ again' = (topOk /\ m = manifest)
    /\ topOk' = FALSE
    /\ failure' = NoFailure
    /\ fetchCnt' = [q \in {} |-> 0]
    /\ fetchedRun' = {}
    /\ startOk' = FALSE
    /\ plan' = {}
    /\ ops' = NoOps
    /\ snap' = NoSnap
    /\ okConf' = [q \in {} |-> EmptyMap]
    /\ visited' = <<>>
    /\ probed' = {}
    /\ started' = {}
    /\ processed' = {}
    /\ result' = NoResult
    /\ UNCHANGED <<dirs, ledgers, outdirs, proj, conf, cur_deps,
                   new_deps, state_file_exists, acts, act, new_dep, wtodo, wret>>

\* A map whose remove does nothing.
KeepDep(deps, name) == deps

\* A removal that empties the map.
DropAll(deps, name) == EmptyMap

\* cur_deps.remove(&dep_name), new_deps.remove(&dep_name).
cur_deps_remove(deps, name) == [n \in DOMAIN deps \ {name} |-> deps[n]]

\* An open without truncate(true): the old lines stay.
KeepLines(lines) == lines

\* OpenOptions create(true).truncate(true).write(true): what is left of the
\* lines the file held.
OpenTruncate(lines) == <<>>

\* An executor that rewrites the ledger even when nothing changed.
AlwaysWritePc(exists) == "wopen"

\* An executor that returns at once on an empty plan, ledger or not.
NeverWritePc(exists) == "reconciled"

\* `actions.is_empty()`: the ledger is written only if it does not exist.
EmptyPlanPc(exists) == IF ~exists THEN "wopen" ELSE "reconciled"

\* A walker that ignores the recursion flag.
NeverStops(r) == FALSE

\* `if !recurse { break; }`
StopsAfterFirst(r) == ~r

\* A walker that probes only the directories fetched in this run.
ProbeFetchedOnly(deps) ==
    {n \in DOMAIN deps : Append(proj.proj_dir, n) \in fetchedRun}

\* A walker that probes every name it knows, in the manifest or not.
ProbeAllNames(deps) == Names

\* `for dep_name in conf.deps.keys()`
ProbeNames(deps) == DOMAIN deps

\* The loop of install_deps goes on: the next action, or Ok.
NextPc == IF acts = <<>> THEN "reconciled" ELSE "exec"

\* Where write_state_file returns to.
AfterWritePc ==
    CASE wret = "initial" -> "reconciled"
      [] wret = "after_remove" -> IF act.kind = "Install" THEN "mkdir" ELSE NextPc
      [] OTHER -> NextPc

\* The action is complete when the write that ends it returns.
ProcessedAfterWrite ==
    IF wret = "after_install" \/ (wret = "after_remove" /\ act.kind # "Install")
    THEN processed \cup {act.name}
    ELSE processed

WriteErrKind ==
    CASE wret = "initial" -> "WriteInitialCurDepsFailed"
      [] wret = "after_remove" -> "WriteCurDepsAfterRemoveFailed"
      [] OTHER -> "WriteCurDepsAfterInstallFailed"

\* One turn of the loop of `install` up to the first mutation of
\* install_deps: pop a project, decode and parse its manifest, read and
\* parse its ledger, create the output directory (install_proj_deps), and
\* plan (the head of install_deps).
BeginProj ==
    /\ UNCHANGED <<walk, prev, stderr>>
    /\ pc = "loop"
    /\ IF projs = <<>>
       THEN /\ Return(Ok)
            /\ UNCHANGED <<disk, hist>>
       ELSE LET e == projs[Len(projs)]
                p == e.proj_dir
                c == parse_deps_conf(e.raw.lines)
                utf8 == from_utf8_ok(LedgerLines(p))
                cur == parse_deps(LedgerLines(p), 1)
            IN /\ visited' = Append(visited, p)
               /\ UNCHANGED <<manifest, dirs, ledgers, runs, fetchCnt,
                              fetchedRun, again, topOk, okConf, probed>>
               /\ started' = {}
               /\ processed' = {}
               /\ \/ /\ e.raw.kind = "badutf8"
                     /\ Fail("decode", NoName, p, FALSE,
                             Err("ConvDepsFileUtf8Failed", NoName, e.dep_name, "-"))
                     /\ UNCHANGED <<outdirs, startOk, plan, ops, snap>>
                  \/ /\ e.raw.kind # "badutf8"
                     /\ ~c.ok
                     /\ Fail("parse", NoName, p, FALSE,
                             Err("ParseDepsConfFailed", c.err.dep_name,
                                 e.dep_name, c.err.kind))
                     /\ UNCHANGED <<outdirs, startOk, plan, ops, snap>>
                  \/ /\ e.raw.kind # "badutf8"
                     /\ c.ok
                     /\ Fail("read_state", NoName, p, TRUE,
                             Err("ReadStateFileFailed", NoName, e.dep_name, "-"))
                     /\ UNCHANGED <<outdirs, startOk, plan, ops, snap>>
                  \/ /\ e.raw.kind # "badutf8"
                     /\ c.ok
                     /\ ~utf8
                     /\ Fail("conv_state", NoName, p, FALSE,
                             Err("ConvStateFileUtf8Failed", NoName,
                                 e.dep_name, "-"))
                     /\ UNCHANGED <<outdirs, startOk, plan, ops, snap>>
                  \/ /\ e.raw.kind # "badutf8"
                     /\ c.ok
                     /\ utf8
                     /\ ~cur.ok
                     /\ Fail("parse_state", NoName, p, FALSE,
                             Err("ParseStateFileFailed", cur.err.dep_name,
                                 e.dep_name, cur.err.kind))
                     /\ UNCHANGED <<outdirs, startOk, plan, ops, snap>>
                  \/ /\ e.raw.kind # "badutf8"
                     /\ c.ok
                     /\ utf8
                     /\ cur.ok
                     /\ Fail("mk_outdir", NoName, p, TRUE,
                             Err("CreateMainOutputDirFailed", NoName,
                                 e.dep_name, "-"))
                     /\ UNCHANGED <<outdirs, startOk, plan, ops, snap>>
                  \/ /\ e.raw.kind # "badutf8"
                     /\ c.ok
                     /\ utf8
                     /\ cur.ok
                     /\ outdirs' = outdirs \cup {p}
                     /\ \E a \in actions(cur.deps, c.deps) :
                          /\ acts' = a
                          /\ plan' = {a[k] : k \in 1..Len(a)}
                          /\ pc' = IF a # <<>> THEN "exec"
                                   ELSE EmptyPlanPc(p \in DOMAIN ledgers)
                     /\ projs' = SubSeq(projs, 1, Len(projs) - 1)
                     /\ proj' = e
                     /\ conf' = c.deps
                     /\ cur_deps' = cur.deps
                     /\ new_deps' = c.deps
                     /\ state_file_exists' = (p \in DOMAIN ledgers)
                     /\ act' = NoAction
                     /\ new_dep' = NoDep
                     /\ wtodo' = {}
                     /\ wret' = "initial"
                     /\ startOk' = Matches(p)
                     /\ ops' = NoOps
                     /\ snap' = [exists |-> p \in DOMAIN ledgers,
                                 lines |-> LedgerLines(p),
                                 children |-> [n \in Children(p) |->
                                                  dirs[Append(p, n)]]]
                     /\ UNCHANGED <<recurse, result, failure>>

\* A regular file is at the path.
IsFile(dir) == dir \in DOMAIN dirs /\ dirs[dir].state = "file"

\* A removal that unlinks a regular file as it removes a directory.
RemovesFiles(dir) == FALSE

\* fs::remove_dir_all(dir) fails with ENOTDIR: `dir` is not a directory.
not_a_directory(dir) == IsFile(dir)

\* The head of the loop of install_deps: pop an action and remove the
\* directory of its dependency (fs::remove_dir_all; NotFound is ignored),
\* then drop the name from cur_deps.
RemoveOldDir ==
    /\ UNCHANGED <<walk, prev, stderr>>
    /\ pc = "exec"
    /\ LET a == acts[Len(acts)]
           dir == Append(proj.proj_dir, a.name)
       IN /\ started' = started \cup {a.name}
          /\ \/ /\ a.name # CurDir
                /\ ~not_a_directory(dir)
                /\ dirs' = RemoveTree(dirs, dir)
                /\ ledgers' = RemoveTree(ledgers, dir)
                /\ outdirs' = RemoveTreeSet(outdirs, dir)
                /\ acts' = SubSeq(acts, 1, Len(acts) - 1)
                /\ act' = a
                /\ cur_deps' = cur_deps_remove(cur_deps, a.name)
                /\ pc' = "wopen"
                /\ wret' = "after_remove"
                /\ ops' = [ops EXCEPT !.rm =
                              @ + (IF dir \in DOMAIN dirs THEN 1 ELSE 0)]
                /\ UNCHANGED <<manifest, result, recurse, projs, proj, conf,
                               new_deps, state_file_exists, new_dep, wtodo,
                               runs, failure, fetchCnt, fetchedRun, startOk,
                               plan, snap, again, topOk, okConf, visited,
                               probed, processed>>
             \/ /\ \/ UNCHANGED dirs
                   \/ /\ dir \in DOMAIN dirs
                      /\ ~IsFile(dir)
                      /\ dirs' = [dirs EXCEPT ![dir] = Holds("partial", @.dep)]
                /\ Fail("remove", a.name, proj.proj_dir, TRUE,
                        Err("RemoveOldDepOutputDirFailed", a.name,
                            proj.dep_name, "-"))
                /\ UNCHANGED <<manifest, ledgers, outdirs, runs, fetchCnt,
                               fetchedRun, startOk, plan, ops, snap, again,
                               topOk, okConf, visited, probed, processed>>
             \* `dir` is a regular file: remove_dir_all fails and leaves it.
             \/ /\ a.name # CurDir
                /\ not_a_directory(dir)
                /\ Fail("remove", a.name, proj.proj_dir, FALSE,
                        Err("RemoveOldDepOutputDirFailed", a.name,
                            proj.dep_name, "-"))
                /\ UNCHANGED <<disk, runs, fetchCnt, fetchedRun, startOk, plan,
                               ops, snap, again, topOk, okConf, visited,
                               probed, processed>>
             \* `dir` is <output_dir>/.: remove_dir_all deletes every entry
             \* of the output directory, the ledger file among them, and
             \* the final rmdir of a path ending in `.` fails (EINVAL).
             \/ /\ a.name = CurDir
                /\ dirs' = RemoveBelow(dirs, proj.proj_dir)
                /\ ledgers' = RemoveTree(ledgers, proj.proj_dir)
                /\ outdirs' = RemoveBelowSet(outdirs, proj.proj_dir)
                /\ ops' = [ops EXCEPT !.rm =
                              @ + (IF dirs' # dirs THEN 1 ELSE 0)]
                /\ Fail("remove", a.name, proj.proj_dir, FALSE,
                        Err("RemoveOldDepOutputDirFailed", a.name,
                            proj.dep_name, "-"))
                /\ UNCHANGED <<manifest, runs, fetchCnt, fetchedRun, startOk,
                               plan, snap, again, topOk, okConf, visited,
                               probed, processed>>

\* write_state_file: open the ledger with create and truncate.
WriteOpen ==
    /\ UNCHANGED <<walk, prev, stderr>>
    /\ pc = "wopen"
    /\ \/ /\ ledgers' = Put(ledgers, proj.proj_dir,
                             OpenTruncate(LedgerLines(proj.proj_dir)))
          /\ ops' = [ops EXCEPT !.wr = @ + 1]
          /\ wtodo' = DOMAIN cur_deps
          /\ pc' = IF DOMAIN cur_deps = {} THEN AfterWritePc ELSE "wline"
          /\ processed' = IF DOMAIN cur_deps = {} THEN ProcessedAfterWrite
                          ELSE processed
          /\ UNCHANGED <<manifest, dirs, outdirs, result, recurse, projs, proj,
                         conf, cur_deps, new_deps, state_file_exists, acts, act,
                         new_dep, wret, runs, failure, fetchCnt, fetchedRun,
                         startOk, plan, snap, again, topOk, okConf, visited,
                         probed, started>>
       \/ /\ Fail("write", act.name, proj.proj_dir, TRUE,
                  Err(WriteErrKind, act.name, proj.dep_name, "OpenFailed"))
          /\ UNCHANGED <<disk, runs, fetchCnt, fetchedRun, startOk, plan, ops,
                         snap, again, topOk, okConf, visited, probed, started,
                         processed>>

\* write_state_file: one turn of its loop writes the line of one dependency.
WriteLine ==
    /\ UNCHANGED <<walk, prev, stderr>>
    /\ pc = "wline"
    /\ \E n \in wtodo :
        \/ /\ ledgers' = [ledgers EXCEPT ![proj.proj_dir] =
                              Append(@, DepLine(n, cur_deps[n]))]
           /\ wtodo' = wtodo \ {n}
           /\ pc' = IF wtodo = {n} THEN AfterWritePc ELSE "wline"
           /\ processed' = IF wtodo = {n} THEN ProcessedAfterWrite
                           ELSE processed
           /\ UNCHANGED <<manifest, dirs, outdirs, result, recurse, projs, proj,
                          conf, cur_deps, new_deps, state_file_exists, acts, act,
                          new_dep, wret, runs, failure, fetchCnt, fetchedRun,
                          startOk, plan, ops, snap, again, topOk, okConf,
                          visited, probed, started>>
        \/ /\ Fail("write", act.name, proj.proj_dir, TRUE,
                   Err(WriteErrKind, act.name, proj.dep_name, "WriteDepLineFailed"))
           /\ UNCHANGED <<disk, runs, fetchCnt, fetchedRun, startOk, plan, ops,
                          snap, again, topOk, okConf, visited, probed, started,
                          processed>>

\* Install: take the dependency out of new_deps and create its directory
\* (fs::create_dir).
CreateDepDir ==
    /\ UNCHANGED <<walk, prev, stderr>>
    /\ pc = "mkdir"
    /\ LET dir == Append(proj.proj_dir, act.name)
           free == Len(dir) <= MaxDepth /\ dir \notin DOMAIN dirs
       IN IF act.name \notin DOMAIN new_deps
          THEN /\ Fail("panic", act.name, proj.proj_dir, FALSE,
                       Err("panic", act.name, proj.dep_name, "-"))
               /\ UNCHANGED <<disk, runs, fetchCnt, fetchedRun, startOk, plan,
                              ops, snap, again, topOk, okConf, visited, probed,
                              started, processed>>
          ELSE \/ /\ free
                  /\ dirs' = Put(dirs, dir, Holds("empty", NoDep))
                  /\ new_dep' = new_deps[act.name]
                  /\ new_deps' = cur_deps_remove(new_deps, act.name)
                  /\ pc' = "fetch"
                  /\ ops' = [ops EXCEPT !.mk = @ + 1]
                  /\ UNCHANGED <<manifest, ledgers, outdirs, result, recurse,
                                 projs, proj, conf, cur_deps, state_file_exists,
                                 acts, act, wtodo, wret, runs, failure, fetchCnt,
                                 fetchedRun, startOk, plan, snap, again, topOk,
                                 okConf, visited, probed, started, processed>>
               \/ /\ Fail("mkdir", act.name, proj.proj_dir, free,
                          Err("CreateDepOutputDirFailed", act.name,
                              proj.dep_name, "-"))
                  /\ UNCHANGED <<disk, runs, fetchCnt, fetchedRun, startOk,
                                 plan, ops, snap, again, topOk, okConf, visited,
                                 probed, started, processed>>

\* How a git command may end: it ran and succeeded, it could not be
\* started, it ran and exited with a failure.
GitOutcomes == {"ok", "start_failed", "not_success"}

\* A fetch that blames every failure on the retrieval.
AlwaysRetrieveFailed(out) ==
    IF out[1] # "ok" THEN [res |-> "RetrieveFailed", ran |-> <<out[1]>>]
    ELSE IF out[2] # "ok"
    THEN [res |-> "RetrieveFailed", ran |-> <<out[1], out[2]>>]
    ELSE [res |-> "Ok", ran |-> <<out[1], out[2]>>]

\* Git::fetch: `git clone <src> .` then `git checkout <vsn>` in the output
\* directory, stopping at the first command that fails; out[i] is how
\* command i would end, ran the outcomes of the commands that were run.
git_fetch(out) ==
    IF out[1] # "ok" THEN [res |-> "RetrieveFailed", ran |-> <<out[1]>>]
    ELSE IF out[2] # "ok"
    THEN [res |-> "VersionChangeFailed", ran |-> <<out[1], out[2]>>]
    ELSE [res |-> "Ok", ran |-> <<out[1], out[2]>>]

\* Install: new_dep.tool.fetch(source, version, dir); on success the
\* dependency enters cur_deps.
Fetch ==
    /\ UNCHANGED <<walk, prev, stderr>>
    /\ pc = "fetch"
    /\ \E out \in [1..2 -> GitOutcomes] :
       LET dir == Append(proj.proj_dir, act.name)
           g == git_fetch(out)
       IN /\ fetchCnt' = Put(fetchCnt, dir,
                             (IF dir \in DOMAIN fetchCnt THEN fetchCnt[dir] ELSE 0) + 1)
          /\ ops' = [ops EXCEPT !.fetch = @ + 1, !.git = g.ran]
          /\ UNCHANGED <<manifest, ledgers, outdirs, runs, startOk, plan, snap,
                         again, topOk, okConf, visited, probed, started,
                         processed>>
          /\ \/ /\ g.res = "Ok"
                /\ dirs' = [dirs EXCEPT ![dir] = Holds("ok", new_dep)]
                /\ cur_deps' = Put(cur_deps, act.name, new_dep)
                /\ fetchedRun' = fetchedRun \cup {dir}
                /\ pc' = "wopen"
                /\ wret' = "after_install"
                /\ UNCHANGED <<result, recurse, projs, proj, conf, new_deps,
                               state_file_exists, acts, act, new_dep, wtodo,
                               failure>>
             \/ /\ g.res = "RetrieveFailed"
                /\ UNCHANGED <<dirs, fetchedRun>>
                /\ Fail("fetch", act.name, proj.proj_dir, TRUE,
                        Err("FetchFailed", act.name, proj.dep_name, g.res))
             \/ /\ g.res = "VersionChangeFailed"
                /\ dirs' = [dirs EXCEPT ![dir] = Holds("partial", new_dep)]
                /\ UNCHANGED fetchedRun
                /\ Fail("fetch", act.name, proj.proj_dir, TRUE,
                        Err("FetchFailed", act.name, proj.dep_name, g.res))

\* A join that forgets the name: every dependency leads to the same path.
SamePath(p, n) == Append(p, "a")

\* proj_dir.join(&conf.output_dir).join(dep_name)
dep_proj_path(p, n) == Append(p, n)

\* A worklist entry that does not name its dependency.
UntaggedEntry(p, n, raw) ==
    [proj_dir |-> dep_proj_path(p, n), dep_name |-> NoName, raw |-> raw]

\* projs.push((dep_proj_path, Some(dep_name), dep_deps_file_path, raw)).
NestedEntry(p, n, raw) ==
    [proj_dir |-> dep_proj_path(p, n), dep_name |-> n, raw |-> raw]

\* What try_read may find at <dir>/dpnd.txt.
NestedManifests(dir) ==
    IF dir \notin DOMAIN dirs THEN {NoFile}
    ELSE CASE dirs[dir].state = "ok" -> {RemoteManifest(dirs[dir].dep)}
           [] dirs[dir].state = "partial" ->
                {NoFile, RemoteManifest(dirs[dir].dep)}
           [] OTHER -> {NoFile}

\* install_proj_deps returned Ok: stop without recursion; else probe every
\* dependency of the manifest for a nested manifest and push those found.
DiscoverNested ==
    /\ UNCHANGED <<walk, prev, stderr>>
    /\ pc = "reconciled"
    /\ okConf' = Put(okConf, proj.proj_dir, conf)
    /\ topOk' = (topOk \/ proj.proj_dir = <<>>)
    /\ UNCHANGED <<disk, runs, fetchCnt, fetchedRun, startOk, plan, ops, snap,
                   again, visited, started, processed>>
    /\ IF StopsAfterFirst(recurse)
       THEN /\ Return(Ok)
            /\ UNCHANGED <<failure, probed>>
       ELSE \/ \E n \in ProbeNames(conf) :
                /\ Fail("read_nested", n, proj.proj_dir,
                        ~IsFile(dep_proj_path(proj.proj_dir, n)),
                        Err("ReadNestedDepsFileFailed", n, NoName, "-"))
                /\ UNCHANGED probed
            \/ \E o \in Orders(ProbeNames(conf)) :
               \E raws \in [ProbeNames(conf) ->
                             UNION {NestedManifests(dep_proj_path(proj.proj_dir, n)) :
                                      n \in ProbeNames(conf)}] :
                \* try_read below a regular file fails (ENOTDIR)
                /\ \A n \in ProbeNames(conf) :
                      ~IsFile(dep_proj_path(proj.proj_dir, n))
                /\ \A n \in ProbeNames(conf) :
                      raws[n] \in NestedManifests(dep_proj_path(proj.proj_dir, n))
                /\ LET found(e) == e.raw.kind # "none"
                       all == [k \in 1..Len(o) |->
                                 NestedEntry(proj.proj_dir, o[k], raws[o[k]])]
                   IN projs' = projs \o SelectSeq(all, found)
                /\ probed' = probed \cup
                       {dep_proj_path(proj.proj_dir, n) : n \in ProbeNames(conf)}
                /\ pc' = "loop"
                /\ proj' = NoProj
                /\ conf' = EmptyMap
                /\ cur_deps' = EmptyMap
                /\ new_deps' = EmptyMap
                /\ state_file_exists' = FALSE
                /\ acts' = <<>>
                /\ act' = NoAction
                /\ new_dep' = NoDep
                /\ wtodo' = {}
                /\ wret' = "-"
                /\ UNCHANGED <<recurse, result, failure>>

\* The process is killed between two steps.
Kill ==
    /\ UNCHANGED <<walk, prev, stderr>>
    /\ pc \notin {"idle", "done"}
    /\ Fail("kill", NoName, proj.proj_dir, TRUE, Err("Killed", NoName, NoName, "-"))
    /\ UNCHANGED <<disk, runs, fetchCnt, fetchedRun, startOk, plan, ops, snap,
                   again, topOk, okConf, visited, probed, started, processed>>

\* Between two runs the ledger of a project is damaged or edited by hand.
CorruptLedger ==
    /\ UNCHANGED <<walk, prev, stderr>>
    /\ pc \in {"idle", "done"}
    /\ runs < MaxRuns
    /\ \E p \in DOMAIN ledgers, bad \in BadLedgers :
         /\ ledgers[p] \notin BadLedgers
         /\ ledgers' = [ledgers EXCEPT ![p] = bad]
    /\ UNCHANGED <<manifest, dirs, outdirs, pc, result, mem, hist>>

Next ==
    \/ \E m \in TopManifests, r \in BOOLEAN : StartRun(m, r)
    \/ BeginProj
    \/ RemoveOldDir
    \/ WriteOpen
    \/ WriteLine
    \/ CreateDepDir
    \/ Fetch
    \/ DiscoverNested
    \/ Kill

Spec == Init /\ [][Next]_vars

\* ---------------------------------------------------- damaged ledgers
\* The first bytes of a version, when the write of its line is cut short.
CutWord(w) == IF w \in {"v1", "v2"} THEN "v" ELSE w
\* What is on disk of a line whose write was cut short: the line without
\* its version, or with the first bytes of the version.
PartialLines(line) ==
    { SubSeq(line, 1, 3),
      <<line[1], line[2], line[3], CutWord(line[4])>> }

\* The process is killed within the write of a line of the ledger.
KillInWrite ==
    /\ UNCHANGED <<walk, prev, stderr>>
    /\ pc = "wline"
    /\ \E n \in wtodo :
       \E part \in PartialLines(DepLine(n, cur_deps[n])) :
         ledgers' = [ledgers EXCEPT ![proj.proj_dir] = Append(@, part)]
    /\ Fail("kill", NoName, proj.proj_dir, TRUE,
            Err("Killed", NoName, NoName, "-"))
    /\ UNCHANGED <<manifest, dirs, outdirs, runs, fetchCnt, fetchedRun,
                   startOk, plan, ops, snap, again, topOk, okConf, visited,
                   probed, started, processed>>

\* The manifests of the runs around a damaged ledger.
DamageManifests ==
    { ManifestOf(<<>>),
      ManifestOf(<<DepLine("a", Dep("lib", "v1")),
                   <<"#", "comment">>,
                   DepLine("b", Dep("leaf", "v1"))>>),
      ManifestOf(<<DepLine("a", Dep("lib", "v1")),
                   DepLine("b", Dep("leaf", "v2"))>>) }

\* The program in an environment where ledgers are damaged between runs
\* and the process may be killed within a write.
NextDamage ==
    \/ \E m \in DamageManifests, r \in BOOLEAN : StartRun(m, r)
    \/ CorruptLedger
    \/ KillInWrite
    \/ BeginProj
    \/ RemoveOldDir
    \/ WriteOpen
    \/ WriteLine
    \/ CreateDepDir
    \/ Fetch
    \/ DiscoverNested
    \/ Kill

SpecDamage == Init /\ [][NextDamage]_vars

\* ------------------------------------------- directories removed by hand
\* Between two runs the user deletes the directory of a dependency of the
\* top-level project, and all below it.
DeleteDir ==
    /\ UNCHANGED <<walk, prev, stderr>>
    /\ pc \in {"idle", "done"}
    /\ runs < MaxRuns
    /\ \E n \in Children(<<>>) :
         /\ dirs' = RemoveTree(dirs, <<n>>)
         /\ ledgers' = RemoveTree(ledgers, <<n>>)
         /\ outdirs' = RemoveTreeSet(outdirs, <<n>>)
    /\ UNCHANGED <<manifest, pc, result, mem, hist>>

\* Between two runs the user writes a regular file where the directory of
\* a dependency of the top-level project would be, creating the output
\* directory for it when there is none.
PlaceFile ==
    /\ UNCHANGED <<walk, prev, stderr>>
    /\ pc \in {"idle", "done"}
    /\ runs < MaxRuns
    /\ \E n \in {"a", "b"} :
         /\ <<n>> \notin DOMAIN dirs
         /\ dirs' = Put(dirs, <<n>>, Holds("file", NoDep))
    /\ outdirs' = outdirs \cup {<<>>}
    /\ UNCHANGED <<manifest, ledgers, pc, result, mem, hist>>

\* Ledgers whose only line has four fields and a registered tool, and a
\* name the manifest grammar refuses: a character outside [a-zA-Z0-9._-],
\* the name of the ledger file.
OddNameLedgers ==
    { <<<<"my!dep", "git", "leaf", "v1">>>>,
      <<<<state_file_name, "git", "leaf", "v1">>>> }

\* Between two runs the user rewrites the ledger of the top-level project
\* by hand.
EditLedger ==
    /\ UNCHANGED <<walk, prev, stderr>>
    /\ pc \in {"idle", "done"}
    /\ runs < MaxRuns
    /\ <<>> \in DOMAIN ledgers
    /\ \E odd \in OddNameLedgers :
         /\ ledgers[<<>>] # odd
         /\ ledgers' = [ledgers EXCEPT ![<<>>] = odd]
    /\ UNCHANGED <<manifest, dirs, outdirs, pc, result, mem, hist>>

\* The program in an environment where, between runs, dependency
\* directories are deleted, files are placed in the output directory and
\* the ledger is edited.
NextHand ==
    \/ \E m \in DamageManifests, r \in BOOLEAN : StartRun(m, r)
    \/ DeleteDir
    \/ PlaceFile
    \/ EditLedger
    \/ BeginProj
    \/ RemoveOldDir
    \/ WriteOpen
    \/ WriteLine
    \/ CreateDepDir
    \/ Fetch
    \/ DiscoverNested
    \/ Kill

SpecHand == Init /\ [][NextHand]_vars

\* ------------------------------------------------------------- claims
\* The states in which install_deps is at work on the project `proj`.
Reconciling == pc \in {"exec", "wopen", "wline", "mkdir", "fetch", "reconciled"}

\* The ledger of project p, parsed (the empty map when it is missing).
LedgerMap(p) == parse_deps(LedgerLines(p), 1).deps

\* C1: crash-safety of the ledger. In every state (each is the state after
\* one mutation, where the process may stop) every name a ledger lists has
\* its directory on disk, holding the tree of the listed tool, source and
\* version.
C1_LedgerTruthful ==
    \A p \in DOMAIN ledgers :
        \A n \in DOMAIN LedgerMap(p) :
            /\ Append(p, n) \in DOMAIN dirs
            /\ dirs[Append(p, n)] = Holds("ok", LedgerMap(p)[n])

\* C2: when install_deps returns Ok for a project whose ledger matched the
\* disk at the start, the ledger parses to exactly the desired map and the
\* dependency directories are exactly the desired names, each holding the
\* tree of its desired triple.
C2_PostState ==
    (pc = "reconciled" /\ startOk) =>
        LET p == proj.proj_dir
        IN /\ p \in DOMAIN ledgers
           /\ parse_deps(ledgers[p], 1).ok
           /\ LedgerMap(p) = conf
           /\ Children(p) = DOMAIN conf
           /\ \A n \in DOMAIN conf : dirs[Append(p, n)] = Holds("ok", conf[n])

C2_Witness ==
    /\ pc = "reconciled"
    /\ startOk
    /\ \E a \in plan : a.kind = "Install" /\ a.name \in DOMAIN snap.children
    /\ \E a \in plan : a.kind = "Remove"

\* The names on the lines of the ledger of p, parsed or not.
LedgerNames(p) == {LedgerLines(p)[k][1] : k \in 1..Len(LedgerLines(p))}

\* C3 as the spec words it: after a failed fetch of B, B is absent from
\* both the disk and the ledger.
C3_FailedDepAbsent ==
    (pc = "done" /\ failure.op = "fetch") =>
        /\ Append(failure.proj_dir, failure.dep_name) \notin DOMAIN dirs
        /\ failure.dep_name \notin LedgerNames(failure.proj_dir)

\* C3: after a failed fetch of B, B has no ledger entry, its directory is
\* still on disk as create_dir and the tool left it (empty or partial), and
\* every action processed before the failure matches the ledger: an
\* installed name is listed with its desired triple and its directory holds
\* that tree, a removed name has neither entry nor directory.
C3_FailedDepLeftOnDisk ==
    (pc = "done" /\ failure.op = "fetch") =>
        LET p == failure.proj_dir
            b == failure.dep_name
        IN /\ b \notin LedgerNames(p)
           /\ Append(p, b) \in DOMAIN dirs
           /\ dirs[Append(p, b)].state \in {"empty", "partial"}
           /\ parse_deps(LedgerLines(p), 1).ok
           /\ \A a \in plan :
                a.name \in processed =>
                    IF a.kind = "Install"
                    THEN /\ a.name \in LedgerNames(p)
                         /\ Append(p, a.name) \in DOMAIN dirs
                         /\ dirs[Append(p, a.name)] =
                                Holds("ok", LedgerMap(p)[a.name])
                    ELSE /\ a.name \notin LedgerNames(p)
                         /\ Append(p, a.name) \notin DOMAIN dirs

C3_Witness ==
    /\ pc = "done"
    /\ failure.op = "fetch"
    /\ Cardinality({a \in plan : a.kind = "Install"}) = 2
    /\ \E a \in plan : a.kind = "Remove" /\ a.name \in processed
    /\ \E a \in plan : a.kind = "Install" /\ a.name \in processed

\* C4: when the manifest of the previous run, whose top-level reconciliation
\* returned Ok, is reconciled again unchanged, the plan is empty, the
\* executor returns at once, nothing is removed, created, fetched or
\* written, and the ledger and the directories are those found at the start.
C4_Idempotent ==
    (again /\ visited = <<<<>>>> /\ (Reconciling \/ pc = "done")
           /\ failure.op = "none") =>
        /\ pc \in {"reconciled", "done"}
        /\ plan = {}
        /\ ops = NoOps
        /\ DOMAIN fetchCnt = {}
        /\ snap.exists
        /\ <<>> \in DOMAIN ledgers
        /\ ledgers[<<>>] = snap.lines
        /\ Children(<<>>) = DOMAIN snap.children
        /\ \A n \in Children(<<>>) : dirs[<<n>>] = snap.children[n]

C4_Witness ==
    /\ again
    /\ pc = "reconciled"
    /\ proj.proj_dir = <<>>
    /\ Cardinality(DOMAIN conf) = 2

\* ------------------------------------------------- the planner alone
\* The triples a dependency may have: they differ from the first in the
\* tool, in the source and in the version.
PlanDeps ==
    { [tool |-> "git", source |-> "lib", version |-> "v1"],
      [tool |-> "hg", source |-> "lib", version |-> "v1"],
      [tool |-> "git", source |-> "leaf", version |-> "v1"],
      [tool |-> "git", source |-> "lib", version |-> "v2"] }

PlanMaps == UNION {[S -> PlanDeps] : S \in SUBSET Names}

\* install_deps is entered with any current and any desired map.
InitPlan ==
    /\ cwd = <<>>
    /\ chain = <<>>
    /\ prev = NoFailure
    /\ stderr = <<>>
    /\ cur_deps \in PlanMaps
    /\ new_deps \in PlanMaps
    /\ conf = new_deps
    /\ pc = "plan"
    /\ manifest = ManifestOf(<<>>)
    /\ dirs = [q \in {} |-> Holds("empty", NoDep)]
    /\ ledgers = [q \in {} |-> <<>>]
    /\ outdirs = {}
    /\ result = Ok
    /\ recurse = FALSE
    /\ projs = <<>>
    /\ proj = NoProj
    /\ state_file_exists = FALSE
    /\ acts = <<>>
    /\ act = NoAction
    /\ new_dep = NoDep
    /\ wtodo = {}
    /\ wret = "-"
    /\ runs = 0
    /\ failure = NoFailure
    /\ fetchCnt = [q \in {} |-> 0]
    /\ fetchedRun = {}
    /\ startOk = FALSE
    /\ plan = {}
    /\ ops = NoOps
    /\ snap = NoSnap
    /\ again = FALSE
    /\ topOk = FALSE
    /\ okConf = [q \in {} |-> EmptyMap]
    /\ visited = <<>>
    /\ probed = {}
    /\ started = {}
    /\ processed = {}

\* `let mut actions = actions(&cur_deps, &new_deps);`
PlanStep ==
    /\ UNCHANGED <<walk, prev, stderr>>
    /\ pc = "plan"
    /\ \E a \in actions(cur_deps, new_deps) :
        /\ acts' = a
        /\ plan' = {a[k] : k \in 1..Len(a)}
    /\ pc' = "planned"
    /\ UNCHANGED <<disk, result, recurse, projs, proj, conf, cur_deps, new_deps,
                   state_file_exists, act, new_dep, wtodo, wret, runs, failure,
                   fetchCnt, fetchedRun, startOk, ops, snap, again, topOk,
                   okConf, visited, probed, started, processed>>

\* One turn of the loop of install_deps as it changes the maps in memory:
\* pop an action, cur_deps.remove; for an Install, new_deps.remove and
\* cur_deps.insert.
ApplyStep ==
    /\ UNCHANGED <<walk, prev, stderr>>
    /\ pc \in {"planned", "applying"}
    /\ IF acts = <<>>
       THEN /\ pc' = "applied"
            /\ UNCHANGED <<acts, act, cur_deps, new_deps, new_dep, started,
                           processed>>
       ELSE LET a == acts[Len(acts)]
            IN /\ acts' = SubSeq(acts, 1, Len(acts) - 1)
               /\ act' = a
               /\ started' = started \cup {a.name}
               /\ processed' = processed \cup {a.name}
               /\ pc' = "applying"
               /\ IF a.kind = "Install" /\ a.name \in DOMAIN new_deps
                  THEN /\ new_dep' = new_deps[a.name]
                       /\ new_deps' = cur_deps_remove(new_deps, a.name)
                       /\ cur_deps' = Put(cur_deps_remove(cur_deps, a.name),
                                          a.name, new_deps[a.name])
                  ELSE /\ cur_deps' = cur_deps_remove(cur_deps, a.name)
                       /\ UNCHANGED <<new_deps, new_dep>>
    /\ UNCHANGED <<disk, result, recurse, projs, proj, conf,
                   state_file_exists, wtodo, wret, runs, failure,
                   fetchCnt, fetchedRun, startOk, plan, ops, snap, again, topOk,
                   okConf, visited, probed>>

NextPlan == PlanStep \/ ApplyStep

SpecPlan == InitPlan /\ [][NextPlan]_vars

\* C5: for all current and desired maps, actions() returns Install(name)
\* exactly for the desired names that are absent from current or whose
\* tool, source or version differs, Remove(name) exactly for the current
\* names absent from desired, nothing for an unchanged name, at most one
\* action per name; and once every action is applied current equals desired.
C5_PlannerDiff ==
    /\ pc = "planned" =>
        /\ \A n \in Names :
            /\ Action("Install", n) \in plan <=>
                 /\ n \in DOMAIN new_deps
                 /\ n \notin DOMAIN cur_deps \/ cur_deps[n] # new_deps[n]
            /\ Action("Remove", n) \in plan <=>
                 (n \in DOMAIN cur_deps /\ n \notin DOMAIN new_deps)
            /\ (n \in DOMAIN cur_deps /\ n \in DOMAIN new_deps
                    /\ cur_deps[n] = new_deps[n]) =>
                 \A a \in plan : a.name # n
        /\ \A a \in plan : a.kind \in {"Install", "Remove"} /\ a.name \in Names
        /\ \A i, j \in 1..Len(acts) : acts[i].name = acts[j].name => i = j
        /\ plan = {acts[k] : k \in 1..Len(acts)}
    /\ pc = "applied" => cur_deps = conf

C5_Witness ==
    /\ pc = "applied"
    /\ cur_deps = conf
    /\ \E a \in plan : a.kind = "Remove"
    /\ \E a \in plan : a.kind = "Install" /\ conf[a.name].tool = "hg"
    /\ \E n \in DOMAIN conf : \A a \in plan : a.name # n

\* C6: while the directory of an Install is being created and fetched, the
\* ledger on disk is completely rewritten and does not name the dependency;
\* and the ledger names an Install of the plan with its desired triple only
\* if the fetch into its directory has returned Ok in this run.
C6_CommitOrder ==
    Reconciling =>
        LET p == proj.proj_dir
        IN /\ pc \in {"mkdir", "fetch"} =>
                /\ p \in DOMAIN ledgers
                /\ act.name \notin LedgerNames(p)
                /\ parse_deps(ledgers[p], 1).ok
                /\ LedgerMap(p) = cur_deps
           /\ \A a \in plan :
                (/\ a.kind = "Install"
                 /\ \E k \in 1..Len(LedgerLines(p)) :
                        LedgerLines(p)[k] = DepLine(a.name, conf[a.name]))
                    => Append(p, a.name) \in fetchedRun

C6_Witness ==
    /\ pc = "fetch"
    /\ act.name \in DOMAIN snap.children
    /\ act.name \notin LedgerNames(proj.proj_dir)
    /\ LedgerNames(proj.proj_dir) # {}

\* The error kinds by which install reports the failing phase.
KindsOf(op) ==
    CASE op = "remove" -> {"RemoveOldDepOutputDirFailed"}
      [] op = "write" -> {"WriteInitialCurDepsFailed",
                          "WriteCurDepsAfterRemoveFailed",
                          "WriteCurDepsAfterInstallFailed"}
      [] op = "mkdir" -> {"CreateDepOutputDirFailed"}
      [] op = "fetch" -> {"FetchFailed"}
      [] OTHER -> {}

\* C7: the fetch tool is invoked at most once per directory per run, the
\* loop starts an action only when all before it are complete, and when a
\* step of an action fails the run is over: install has returned an error
\* that names the phase and the dependency, the failed action is not
\* complete and no action after it was started.
C7_FailFast ==
    /\ \A q \in DOMAIN fetchCnt : fetchCnt[q] <= 1
    /\ Cardinality(started \ processed) <= 1
    /\ processed \subseteq started
    /\ failure.op \in {"remove", "write", "mkdir", "fetch"} =>
        /\ pc = "done"
        /\ ~result.ok
        /\ result.kind \in KindsOf(failure.op)
        /\ result.dep_name = failure.dep_name
        /\ failure.dep_name \notin processed
        /\ started \ processed \subseteq {failure.dep_name}

C7_Witness ==
    /\ pc = "done"
    /\ failure.op = "fetch"
    /\ fetchCnt[Append(failure.proj_dir, failure.dep_name)] = 1
    /\ \E a \in plan : a.name \notin started

\* C8 as the spec words it: a recursive run in which no step fails for an
\* outside reason (every fetch succeeds, no file is malformed) empties its
\* worklist and returns Ok.
C8_WalkEndsOk ==
    (/\ pc = "done"
     /\ recurse
     /\ ~failure.injected
     /\ failure.op \notin {"decode", "parse", "parse_state"}) => result.ok

\* C9: without the recursion flag the loop of install pops the seeded entry
\* only: nothing is probed for a nested manifest, no nested project is
\* parsed or reconciled, no failure comes from below the top project, and no
\* step of the run creates a nested output directory or a nested ledger.
C9_State ==
    ~recurse =>
        /\ Len(visited) <= 1
        /\ \A k \in 1..Len(visited) : visited[k] = <<>>
        /\ probed = {}
        /\ DOMAIN okConf \subseteq {<<>>}
        /\ \A k \in 1..Len(projs) : projs[k].proj_dir = <<>>
        /\ failure.proj_dir = <<>>
        /\ pc = "done" => result.nested = NoName

C9_Step ==
    ~recurse' =>
        /\ outdirs' \ {<<>>} \subseteq outdirs
        /\ DOMAIN ledgers' \ {<<>>} \subseteq DOMAIN ledgers

C9_SeededOnly == [](C9_State) /\ [][C9_Step]_vars

C9_Witness ==
    /\ pc = "done"
    /\ ~recurse
    /\ result.ok
    /\ <<"a">> \in DOMAIN dirs
    /\ dirs[<<"a">>].state = "ok"
    /\ ~parse_deps_conf(RemoteManifest(dirs[<<"a">>].dep).lines).ok
    /\ <<"b">> \in DOMAIN dirs
    /\ dirs[<<"b">>].state = "ok"
    /\ RemoteManifest(dirs[<<"b">>].dep).kind = "text"

\* C10 as the spec words it: an entry is pushed onto the worklist only for
\* a directory whose fetch returned Ok in this run.
C10_OnlyFresh ==
    \A k \in 1..Len(projs) :
        projs[k].proj_dir # <<>> => projs[k].proj_dir \in fetchedRun

\* C10: an entry is pushed onto the worklist only for a dependency named in
\* the manifest of a project whose reconciliation returned Ok in this run,
\* and whose directory is on disk (fetched in this run or before).
C10_OnlyReconciled ==
    \A k \in 1..Len(projs) :
        LET e == projs[k]
            parent == SubSeq(e.proj_dir, 1, Len(e.proj_dir) - 1)
        IN e.proj_dir # <<>> =>
            /\ recurse
            /\ e.raw.kind # "none"
            /\ e.dep_name = e.proj_dir[Len(e.proj_dir)]
            /\ parent \in DOMAIN okConf
            /\ e.dep_name \in DOMAIN okConf[parent]
            /\ e.proj_dir \in DOMAIN dirs
            /\ e.proj_dir \in probed

C10_Witness ==
    \E k \in 1..Len(projs) :
        /\ projs[k].proj_dir # <<>>
        /\ projs[k].proj_dir \notin fetchedRun
        /\ dirs[projs[k].proj_dir].state = "ok"

\* C11: when a recursive run returns Ok, every project it reconciled has
\* its output directory and a ledger equal to its manifest, and every
\* dependency of such a project whose directory holds a manifest has been
\* reconciled as a project itself, at every depth, whether the directory was
\* fetched in this run or was already in place.
C11_NestedReconciled ==
    (pc = "done" /\ recurse /\ result.ok) =>
        /\ <<>> \in DOMAIN okConf
        /\ \A p \in DOMAIN okConf :
            /\ p \in outdirs
            /\ p \in DOMAIN ledgers
            /\ parse_deps(ledgers[p], 1).ok
            /\ LedgerMap(p) = okConf[p]
            /\ \A n \in DOMAIN okConf[p] :
                LET d == Append(p, n)
                IN (/\ d \in DOMAIN dirs
                    /\ dirs[d].state = "ok"
                    /\ RemoteManifest(dirs[d].dep).kind # "none") =>
                        /\ d \in DOMAIN okConf
                        /\ okConf[d] =
                             parse_deps_conf(RemoteManifest(dirs[d].dep).lines).deps

C11_Witness ==
    /\ pc = "done"
    /\ recurse
    /\ result.ok
    /\ runs = 2
    /\ <<"a">> \notin fetchedRun
    /\ <<"a">> \in DOMAIN okConf
    /\ <<"a", "a">> \in fetchedRun
    /\ <<"a", "a">> \in DOMAIN okConf
    /\ <<"a", "a", "b">> \in fetchedRun

\* The project directories of this run: those popped, then those pending.
RunDirs == visited \o [k \in 1..Len(projs) |-> projs[k].proj_dir]

\* C12: within one run no project directory is popped twice, and every
\* entry on the worklist has a directory distinct from every other entry
\* and from every directory already popped.
C12_NoRevisit ==
    \A i, j \in 1..Len(RunDirs) : RunDirs[i] = RunDirs[j] => i = j

C12_Witness ==
    /\ recurse
    /\ Len(visited) = 3
    /\ Len(projs) = 1
    /\ \E k \in 1..Len(visited) : Len(visited[k]) = 2

\* The steps that decode, parse or reconcile a worklist entry.
EntryOps == {"decode", "parse", "read_state", "parse_state", "mk_outdir",
             "remove", "write", "mkdir", "fetch"}

\* C13: the error of a step that decodes, parses or reconciles a worklist
\* entry names no dependency when the entry is the seeded top-level
\* manifest, and for a nested entry names the dependency whose directory
\* holds the manifest: the last name of the entry's path.
C13_ErrorTag ==
    failure.op \in EntryOps =>
        /\ ~result.ok
        /\ result.nested = IF failure.proj_dir = <<>> THEN NoName
                           ELSE failure.proj_dir[Len(failure.proj_dir)]

C13_Witness ==
    /\ failure.op = "parse"
    /\ Len(failure.proj_dir) = 1
    /\ result.nested = "a"
    /\ result.kind = "ParseDepsConfFailed"

\* C14: when a step on a nested entry fails, install has returned an
\* error, the failing entry is the last one popped, and the project that
\* owns the dependency is as its reconciliation left it: its ledger equals
\* its manifest and lists the dependency, whose directory is on disk (with
\* the fetched tree if it was fetched in this run).
C14_State ==
    (failure.op \in EntryOps /\ failure.proj_dir # <<>>) =>
        LET d == failure.proj_dir
            n == d[Len(d)]
            parent == SubSeq(d, 1, Len(d) - 1)
        IN /\ pc = "done"
           /\ ~result.ok
           /\ visited[Len(visited)] = d
           /\ parent \in DOMAIN okConf
           /\ n \in DOMAIN okConf[parent]
           /\ parent \in DOMAIN ledgers
           /\ n \in LedgerNames(parent)
           /\ LedgerMap(parent) = okConf[parent]
           /\ d \in DOMAIN dirs
           /\ d \in fetchedRun => dirs[d] = Holds("ok", okConf[parent][n])

\* No step taken for a nested project changes a directory that is not below
\* the project's own directory, or the ledger of another project outside it.
C14_Step ==
    (Len(visited) > 1 /\ pc \notin {"idle", "done"}) =>
        LET q == visited[Len(visited)]
        IN /\ \A x \in DOMAIN dirs :
                (~IsPrefix(q, x) \/ x = q) =>
                    x \in DOMAIN dirs' /\ dirs'[x] = dirs[x]
           /\ \A y \in DOMAIN ledgers :
                ~IsPrefix(q, y) =>
                    y \in DOMAIN ledgers' /\ ledgers'[y] = ledgers[y]

Malformed(raw) ==
    LET NotSkipped(ln) == ln # <<>> /\ ln[1] # "#"
        body == SelectSeq(raw.lines, NotSkipped)
    IN \/ raw.kind = "badutf8"
       \/ body = <<>>
       \/ \E k \in 1..Len(body[1]) : body[1][k] \in {".", ".."}
       \/ \E k \in 2..Len(body) :
            \/ Len(body[k]) # 4
            \/ body[k][1] = "my!dep"
            \/ body[k][1] = "current_dpnd.txt"
            \/ body[k][2] # "git"
            \/ \E j \in 2..(k - 1) : body[j][1] = body[k][1]

\* C15: after a decoding or grammar error in the top-level manifest the run
\* is over with an error and nothing was planned, removed, created, written
\* or fetched.
C15_State ==
    (failure.op \in {"decode", "parse"} /\ failure.proj_dir = <<>>) =>
        /\ pc = "done"
        /\ ~result.ok
        /\ result.nested = NoName
        /\ visited = <<<<>>>>
        /\ plan = {}
        /\ started = {}
        /\ ops = NoOps
        /\ DOMAIN fetchCnt = {}
        /\ fetchedRun = {}

\* The step that pops a malformed top-level manifest ends the run with that
\* error and leaves the output directories, the ledgers and the dependency
\* directories as they were.
C15_Step ==
    (/\ pc = "loop"
     /\ visited = <<>>
     /\ projs # <<>>
     /\ Malformed(projs[1].raw)) =>
        /\ UNCHANGED <<dirs, ledgers, outdirs>>
        /\ pc' = "done"
        /\ ~result'.ok
        /\ failure'.op \in {"decode", "parse", "kill"}

C15_NoMutation == [](C15_State) /\ [][C15_Step]_vars

C15_Witness ==
    /\ pc = "done"
    /\ failure.op = "parse"
    /\ result.cause = "DupDepName"
    /\ runs = 1
    /\ outdirs = {}
    /\ DOMAIN ledgers = {}
    /\ DOMAIN dirs = {}

\* ------------------------------------------------ the parser on text
\* Here a text is the sequence of its characters, each a one-character
\* string; "nbsp" stands for the single character U+00A0.
WsAscii == {" ", "\t", "\r"}
\* char::is_whitespace: White_Space, of which the texts here use these.
WsUnicode == WsAscii \cup {"nbsp"}
\* [a-zA-Z0-9._-], of which the texts here use these.
NameChars == {"a", "b", "c", "d", "e", "g", "h", "i", "n", "p", "r", "s",
              "t", "u", "v", "x", "1", "2", "_", ".", "-"}

Git == <<"g", "i", "t">>
Hg == <<"h", "g">>
\* format!("current_{}", deps_file_name)
StateFileName == <<"c", "u", "r", "r", "e", "n", "t", "_",
                   "d", "p", "n", "d", ".", "t", "x", "t">>
Dot == <<".">>
DotDot == <<".", ".">>

RECURSIVE trim_start(_)
\* str::trim_start
trim_start(s) ==
    IF s # <<>> /\ s[1] \in WsUnicode THEN trim_start(Tail(s)) ELSE s

RECURSIVE SplitWs(_, _, _)
SplitWs(s, cur, out) ==
    LET flushed == IF cur = <<>> THEN out ELSE Append(out, cur)
    IN IF s = <<>> THEN flushed
       ELSE IF s[1] \in WsAscii THEN SplitWs(Tail(s), <<>>, flushed)
       ELSE SplitWs(Tail(s), Append(cur, s[1]), out)

\* str::split_ascii_whitespace: the non-empty runs between ASCII whitespace.
split_ascii_whitespace(s) == SplitWs(s, <<>>, <<>>)

RECURSIVE SplitOn(_, _, _, _)
SplitOn(s, sep, cur, out) ==
    IF s = <<>> THEN Append(out, cur)
    ELSE IF s[1] = sep THEN SplitOn(Tail(s), sep, <<>>, Append(out, cur))
    ELSE SplitOn(Tail(s), sep, Append(cur, s[1]), out)

\* str::split(char): the parts between the separators, empty ones included.
split(s, sep) == SplitOn(s, sep, <<>>, <<>>)

\* str::lines: the parts between "\n", without the empty part after a final
\* "\n", each without the "\r" of a "\r\n".
lines(conts) ==
    LET parts == split(conts, "\n")
        kept == IF parts[Len(parts)] = <<>>
                THEN SubSeq(parts, 1, Len(parts) - 1) ELSE parts
        strip(l) == IF l # <<>> /\ l[Len(l)] = "\r"
                    THEN SubSeq(l, 1, Len(l) - 1) ELSE l
    IN [k \in 1..Len(kept) |-> strip(kept[k])]

\* A rule that skips empty lines only.
OnlyEmptySkippable(ln) == ln = <<>>

\* conf_line_is_skippable on a text: ln.is_empty() || ln.starts_with('#')
line_is_skippable(ln) == ln = <<>> \/ ln[1] = "#"

\* A search that finds no bad character.
NoBadChar(name) == 0

\* bad_dep_name_chars.find(&local_name): the 1-based index of the first
\* character outside the class, 0 for None.
find_bad_char(name) ==
    IF \A k \in 1..Len(name) : name[k] \in NameChars THEN 0
    ELSE CHOOSE k \in 1..Len(name) :
            /\ name[k] \notin NameChars
            /\ \A j \in 1..(k - 1) : name[j] \in NameChars

\* A registry that knows every tool name.
AnyTool(tool_name) == TRUE

\* self.tools.get(&tool_name) is Some.
tool_registered(tool_name) == tool_name = Git

\* A lookup that never finds an earlier definition.
NeverDefined(dep_defns, name) == 0

\* The loop over dep_defns: the line number of the definition of `name`,
\* 0 if there is none.
defined_at(dep_defns, name) ==
    IF \E k \in 1..Len(dep_defns) : dep_defns[k].name = name
    THEN dep_defns[CHOOSE k \in 1..Len(dep_defns) :
                        /\ dep_defns[k].name = name
                        /\ \A j \in 1..(k - 1) : dep_defns[j].name # name].ln_num
    ELSE 0

\* A check that rejects `..` only.
OnlyDotDot == {DotDot}

\* `part == "." || part == ".."`
InvalidParts == {Dot, DotDot}

NoTextErr == [kind |-> "none", ln_num |-> 0, dep_name |-> <<>>, line |-> <<>>,
              bad_char_idx |-> 0, orig_ln_num |-> 0, tool_name |-> <<>>,
              part |-> <<>>]

RECURSIVE parse_deps_text(_, _, _)
\* parse_deps on the lines from index i on; i is `ln_num`, the index of the
\* line in the whole file.
parse_deps_text(ls, i, dep_defns) ==
    IF i > Len(ls)
    THEN [ok |-> TRUE, err |-> NoTextErr,
          deps |-> [n \in {dep_defns[k].name : k \in 1..Len(dep_defns)} |->
                      dep_defns[CHOOSE k \in 1..Len(dep_defns) :
                          /\ dep_defns[k].name = n
                          /\ \A j \in (k + 1)..Len(dep_defns) :
                                dep_defns[j].name # n].dep]]
    ELSE LET ln == trim_start(ls[i])
             words == split_ascii_whitespace(ln)
             local_name == words[1]
             tool_name == words[2]
             Bad(e) == [ok |-> FALSE, err |-> e, deps |-> <<>>]
         IN IF line_is_skippable(ln)
            THEN parse_deps_text(ls, i + 1, dep_defns)
            ELSE IF Len(words) # 4
            THEN Bad([NoTextErr EXCEPT !.kind = "InvalidDepSpec",
                                       !.ln_num = i, !.line = ln])
            ELSE IF find_bad_char(local_name) # 0
            THEN Bad([NoTextErr EXCEPT !.kind = "DepNameContainsInvalidChar",
                                       !.ln_num = i, !.dep_name = local_name,
                                       !.bad_char_idx =
                                            find_bad_char(local_name) - 1])
            ELSE IF local_name = StateFileName
            THEN Bad([NoTextErr EXCEPT !.kind = "ReservedDepName",
                                       !.ln_num = i, !.dep_name = local_name])
            ELSE IF defined_at(dep_defns, local_name) # 0
            THEN Bad([NoTextErr EXCEPT !.kind = "DupDepName",
                                       !.ln_num = i, !.dep_name = local_name,
                                       !.orig_ln_num =
                                            defined_at(dep_defns, local_name)])
            ELSE IF ~tool_registered(tool_name)
            THEN Bad([NoTextErr EXCEPT !.kind = "UnknownTool",
                                       !.ln_num = i, !.dep_name = local_name,
                                       !.tool_name = tool_name])
            ELSE parse_deps_text(ls, i + 1,
                    Append(dep_defns,
                           [name |-> local_name,
                            dep |-> [tool |-> tool_name, source |-> words[3],
                                     version |-> words[4]],
                            ln_num |-> i]))

RECURSIVE parse_output_dir_text(_, _)
\* parse_output_dir on the lines from index i on; `next` is the index of the
\* line after the one it consumed.  The path is the parts pushed onto the
\* PathBuf (an empty part adds no component).
parse_output_dir_text(ls, i) ==
    IF i > Len(ls)
    THEN [ok |-> FALSE, output_dir |-> <<>>, next |-> i,
          err |-> [NoTextErr EXCEPT !.kind = "MissingOutputDir"]]
    ELSE LET ln == trim_start(ls[i])
             parts == split(ln, "/")
             NonEmpty(part) == part # <<>>
         IN IF line_is_skippable(ln)
            THEN parse_output_dir_text(ls, i + 1)
            ELSE IF \E k \in 1..Len(parts) : parts[k] \in InvalidParts
            THEN [ok |-> FALSE, output_dir |-> <<>>, next |-> i + 1,
                  err |-> [NoTextErr EXCEPT
                             !.kind = "InvalidPart", !.ln_num = i,
                             !.part = parts[CHOOSE k \in 1..Len(parts) :
                                 /\ parts[k] \in InvalidParts
                                 /\ \A j \in 1..(k - 1) :
                                        parts[j] \notin InvalidParts]]]
            ELSE [ok |-> TRUE, output_dir |-> SelectSeq(parts, NonEmpty),
                  next |-> i + 1, err |-> NoTextErr]

\* parse_deps_conf on the contents of a manifest.
parse_deps_conf_text(conts) ==
    LET ls == lines(conts)
        od == parse_output_dir_text(ls, 1)
        ds == parse_deps_text(ls, od.next, <<>>)
    IN IF ~od.ok
       THEN [ok |-> FALSE, output_dir |-> <<>>, deps |-> <<>>, err |-> od.err]
       ELSE IF ~ds.ok
       THEN [ok |-> FALSE, output_dir |-> <<>>, deps |-> <<>>, err |-> ds.err]
       ELSE [ok |-> TRUE, output_dir |-> od.output_dir, deps |-> ds.deps,
             err |-> NoTextErr]

\* The manifests the parser is run on: lines put together from indents,
\* names, tools, separators and tails, then joined with an end of line.
Indents == {<<>>, <<" ", "\t">>, <<"nbsp">>}
Seps == {<<" ">>, <<"\t", " ">>}
NameToks == {<<"a">>, <<"b">>, <<"a", "!", "b">>, <<"a", "nbsp">>,
             StateFileName, DotDot}
\* After the source: a version; a version and a space; nothing (3 fields);
\* a version and a fifth field.
Rests == {<<" ", "v">>, <<" ", "v", " ">>, <<>>, <<" ", "v", "\t", "x">>}

FirstDepLines ==
    {ind \o name \o sep \o tool \o sep \o <<"s">> \o rest :
        ind \in Indents, name \in NameToks, sep \in Seps,
        tool \in {Git, Hg}, rest \in Rests}

SecondDepLines ==
    {name \o <<" ">> \o tool \o <<" ", "s", " ", "v", "2">> :
        name \in {<<"a">>, <<"b">>, <<"a", "!", "b">>}, tool \in {Git, Hg}}
    \cup {<<"a", " ", "g", "i", "t">>}

SkipLines == {<<>>, <<" ", "\t">>, <<"#", "x">>, <<" ", "#">>, <<"nbsp">>}

OutDirLines ==
    { <<"d", "e", "p", "s">>,
      <<" ", "d", "e", "p", "s">>,
      <<"a", "/", "b">>,
      <<"a", "/", "/", "b">>,
      <<"/", "a">>,
      <<"a", "/", ".", ".", "/", "b">>,
      <<".", "/", "a">>,
      <<".", ".">>,
      <<"a", "/", ".", "/", ".", ".">>,
      <<"a", "/", ".", ".", " ">> }

\* 0 or 1 line of S, as a sequence of lines.
Opt(S) == {<<>>} \cup {<<l>> : l \in S}

ManifestLines ==
    {pre \o <<od>> \o tail :
        pre \in Opt(SkipLines), od \in OutDirLines,
        tail \in Opt({<<"a", " ", "g", "i", "t", " ", "s", " ", "v">>})}
    \cup Opt(SkipLines)
    \cup {pre \o <<<<"d", "e", "p", "s">>>> \o mid \o <<l1>> \o mid \o l2 :
            pre \in Opt({<<"#", "x">>}), mid \in Opt({<<" ", "#">>}),
            l1 \in FirstDepLines, l2 \in Opt(SecondDepLines)}

RECURSIVE Unlines(_, _, _)
\* The text of the lines ls, each ended by eol, the last one only if `final`.
Unlines(ls, eol, final) ==
    IF ls = <<>> THEN <<>>
    ELSE IF Len(ls) = 1 THEN ls[1] \o (IF final THEN eol ELSE <<>>)
    ELSE ls[1] \o eol \o Unlines(Tail(ls), eol, final)

ManifestTexts ==
    {Unlines(ls, eol, final) :
        ls \in ManifestLines, eol \in {<<"\n">>, <<"\r", "\n">>},
        final \in BOOLEAN}

\* install has read a manifest and is about to parse it.
InitParse ==
    /\ cwd = <<>>
    /\ chain = <<>>
    /\ prev = NoFailure
    /\ stderr = <<>>
    /\ manifest \in ManifestTexts
    /\ pc = "parse"
    /\ result = NoResult
    /\ dirs = [q \in {} |-> Holds("empty", NoDep)]
    /\ ledgers = [q \in {} |-> <<>>]
    /\ outdirs = {}
    /\ recurse = FALSE
    /\ projs = <<>>
    /\ proj = NoProj
    /\ conf = EmptyMap
    /\ cur_deps = EmptyMap
    /\ new_deps = EmptyMap
    /\ state_file_exists = FALSE
    /\ acts = <<>>
    /\ act = NoAction
    /\ new_dep = NoDep
    /\ wtodo = {}
    /\ wret = "-"
    /\ runs = 0
    /\ failure = NoFailure
    /\ fetchCnt = [q \in {} |-> 0]
    /\ fetchedRun = {}
    /\ startOk = FALSE
    /\ plan = {}
    /\ ops = NoOps
    /\ snap = NoSnap
    /\ again = FALSE
    /\ topOk = FALSE
    /\ okConf = [q \in {} |-> EmptyMap]
    /\ visited = <<>>
    /\ probed = {}
    /\ started = {}
    /\ processed = {}

\* `let conf = &self.parse_deps_conf(&deps_spec)`
ParseStep ==
    /\ UNCHANGED <<walk, prev, stderr>>
    /\ pc = "parse"
    /\ result' = parse_deps_conf_text(manifest)
    /\ pc' = "parsed"
    /\ UNCHANGED <<disk, mem, hist>>

NextParse == ParseStep

SpecParse == InitParse /\ [][NextParse]_vars

\* ------------------------------------------- claims about the parser
\* The manifest read line by line, as the grammar of the spec describes it.
Ls == lines(manifest)
RECURSIVE TrimAll(_)
\* The lines ls, each without its leading whitespace.
TrimAll(ls) ==
    IF ls = <<>> THEN <<>> ELSE <<trim_start(Head(ls))>> \o TrimAll(Tail(ls))
RECURSIVE FieldsAll(_)
\* The fields of each of the left-trimmed lines tr.
FieldsAll(tr) ==
    IF tr = <<>> THEN <<>>
    ELSE <<split_ascii_whitespace(Head(tr))>> \o FieldsAll(Tail(tr))
SkippedLine(t) == t = <<>> \/ t[1] = "#"
\* The output-directory line: the first line that is not skipped; 0 if none.
OutIdxOf(tr) ==
    IF \A k \in 1..Len(tr) : SkippedLine(tr[k]) THEN 0
    ELSE CHOOSE k \in 1..Len(tr) :
            ~SkippedLine(tr[k]) /\ \A j \in 1..(k - 1) : SkippedLine(tr[j])
\* The dependency lines: the lines after it that are not skipped.
DepIdxOf(tr) ==
    LET out == OutIdxOf(tr)
    IN IF out = 0 THEN {} ELSE {k \in (out + 1)..Len(tr) : ~SkippedLine(tr[k])}
Trimmed(k) == TrimAll(Ls)[k]
Skipped(k) == SkippedLine(Trimmed(k))
Fields(k) == FieldsAll(TrimAll(Ls))[k]
\* The smallest element of a non-empty set of numbers.
Least(S) == CHOOSE k \in S : \A j \in S : k <= j

\* C16: skipped lines (empty or starting with `#` once left-trimmed) add
\* nothing; when a dependency line has not exactly 4 fields the parse fails
\* at or before the first such line, and if at it, with InvalidDepSpec
\* carrying the left-trimmed text and the number of the line in the file;
\* a successful parse yields exactly the names and triples of the
\* dependency lines.
C16_DepLineGrammar ==
    pc = "parsed" =>
        LET tr == TrimAll(Ls)
            fs == FieldsAll(tr)
            outIdx == OutIdxOf(tr)
            depIdx == DepIdxOf(tr)
            wrong == {k \in depIdx : Len(fs[k]) # 4}
        IN /\ wrong # {} =>
                /\ ~result.ok
                /\ result.err.ln_num <= Least(wrong)
                /\ result.err.ln_num = Least(wrong) =>
                     /\ result.err.kind = "InvalidDepSpec"
                     /\ result.err.line = tr[Least(wrong)]
           /\ result.err.kind = "InvalidDepSpec" =>
                /\ result.err.ln_num \in wrong
                /\ result.err.line = tr[result.err.ln_num]
           /\ result.ok =>
                /\ wrong = {}
                /\ DOMAIN result.deps = {fs[k][1] : k \in depIdx}
                /\ \A k \in depIdx :
                     result.deps[fs[k][1]] =
                        [tool |-> fs[k][2], source |-> fs[k][3],
                         version |-> fs[k][4]]

C16_Witness ==
    /\ pc = "parsed"
    /\ result.err.kind = "InvalidDepSpec"
    /\ result.err.ln_num = 4
    /\ Len(Fields(4)) = 5
    /\ Ls[4] # result.err.line
    /\ Skipped(1)
    /\ Skipped(3)

\* C17: a manifest without a line that is not skipped fails with
\* MissingOutputDir; when a `/`-separated part of the output-directory line
\* is `.` or `..` the parse fails with InvalidPart carrying the first such
\* part and the number of the line; a successful parse returns the parts of
\* that line as the path, none of them `.` or `..`.
C17_OutputDirGrammar ==
    pc = "parsed" =>
        LET tr == TrimAll(Ls)
            fs == FieldsAll(tr)
            outIdx == OutIdxOf(tr)
            depIdx == DepIdxOf(tr)
            parts == split(tr[outIdx], "/")
            back == {k \in 1..Len(parts) : parts[k] \in {<<".">>, <<".", ".">>}}
            NonEmpty(part) == part # <<>>
        IN /\ outIdx = 0 =>
                ~result.ok /\ result.err.kind = "MissingOutputDir"
           /\ (outIdx # 0 /\ back # {}) =>
                /\ ~result.ok
                /\ result.err.kind = "InvalidPart"
                /\ result.err.ln_num = outIdx
                /\ result.err.part = parts[Least(back)]
           /\ result.ok =>
                /\ outIdx # 0
                /\ back = {}
                /\ result.output_dir = SelectSeq(parts, NonEmpty)
                /\ \A k \in 1..Len(result.output_dir) :
                     result.output_dir[k] \notin {<<".">>, <<".", ".">>}

C17_Witness ==
    /\ pc = "parsed"
    /\ result.err.kind = "InvalidPart"
    /\ result.err.part = <<".">>
    /\ result.err.ln_num = 2
    /\ \E k \in 1..Len(Ls[2]) : Ls[2][k] = "." /\ k > 3

\* C18: when dependency lines repeat a name the parse fails at or before
\* the first repeating line, and if at it, with DupDepName carrying the
\* name, the number of that line and the number of the line that first
\* defined the name; a successful parse has one entry per dependency line.
C18_DupNames ==
    pc = "parsed" =>
        LET tr == TrimAll(Ls)
            fs == FieldsAll(tr)
            outIdx == OutIdxOf(tr)
            depIdx == DepIdxOf(tr)
            Same(j, k) == /\ j < k
                          /\ Len(fs[j]) = 4
                          /\ Len(fs[k]) = 4
                          /\ fs[j][1] = fs[k][1]
            repeats == {k \in depIdx : \E j \in depIdx : Same(j, k)}
        IN /\ repeats # {} =>
                LET k == Least(repeats)
                IN /\ ~result.ok
                   /\ result.err.ln_num <= k
                   /\ result.err.ln_num = k =>
                        /\ result.err.kind = "DupDepName"
                        /\ result.err.dep_name = fs[k][1]
                        /\ result.err.orig_ln_num =
                             Least({j \in depIdx : Same(j, k)})
           /\ result.err.kind = "DupDepName" => result.err.ln_num \in repeats
           /\ result.ok =>
                Cardinality(DOMAIN result.deps) = Cardinality(depIdx)

C18_Witness ==
    /\ pc = "parsed"
    /\ result.err.kind = "DupDepName"
    /\ result.err.ln_num = 6
    /\ result.err.orig_ln_num = 4

\* Position of the first character of a name outside [a-zA-Z0-9._-]
\* (1-based), 0 if there is none, read off the text.
Lower == {"a", "b", "c", "d", "e", "g", "h", "i", "n", "p", "r", "s", "t",
          "u", "v", "x"}
Clean(c) == c \in Lower \/ c \in {"2", ".", "_", "-"}
FirstBad(name) ==
    IF \A k \in 1..Len(name) : Clean(name[k]) THEN 0
    ELSE Least({k \in 1..Len(name) : ~Clean(name[k])})

\* C19, the validation: when the name of a 4-field dependency line holds a
\* character outside [A-Za-z0-9._-] the parse fails at or before the first
\* such line, and if at it, with DepNameContainsInvalidChar carrying the
\* name, the line number and the 0-based offset of the first bad character;
\* likewise a name equal to the name of the ledger file fails with
\* ReservedDepName.  No successful parse holds the ledger's name.
C19_NameValidation ==
    pc = "parsed" =>
        LET tr == TrimAll(Ls)
            fs == FieldsAll(tr)
            outIdx == OutIdxOf(tr)
            depIdx == DepIdxOf(tr)
            four == {k \in depIdx : Len(fs[k]) = 4}
            dirty == {k \in four : FirstBad(fs[k][1]) # 0}
            reserved == {k \in four : fs[k][1] = StateFileName}
        IN /\ dirty # {} =>
                LET k == Least(dirty)
                IN /\ ~result.ok
                   /\ result.err.ln_num <= k
                   /\ result.err.ln_num = k =>
                        /\ result.err.kind = "DepNameContainsInvalidChar"
                        /\ result.err.dep_name = fs[k][1]
                        /\ result.err.bad_char_idx + 1 = FirstBad(fs[k][1])
           /\ reserved # {} =>
                LET k == Least(reserved)
                IN /\ ~result.ok
                   /\ result.err.ln_num <= k
                   /\ result.err.ln_num = k =>
                        /\ result.err.kind = "ReservedDepName"
                        /\ result.err.dep_name = StateFileName
           /\ result.ok => StateFileName \notin DOMAIN result.deps

C19_ValidationWitness ==
    /\ pc = "parsed"
    /\ result.err.kind = "DepNameContainsInvalidChar"
    /\ result.err.bad_char_idx = 1
    /\ result.err.ln_num = 4

\* `..` is a name the validation accepts.
C19_DotDotAccepted ==
    /\ pc = "parsed"
    /\ result.ok
    /\ DotDot \in DOMAIN result.deps

\* C19, the consequence: no planned action deletes or replaces the ledger
\* file: a step of install_deps other than write_state_file (the removal of
\* the old directory, create_dir, the fetch) leaves the ledger of the
\* project it works on in place, with its lines.
C19_LedgerUntouched ==
    [][(/\ pc \in {"exec", "mkdir", "fetch"}
        /\ proj.proj_dir \in DOMAIN ledgers)
        => (/\ proj.proj_dir \in DOMAIN ledgers'
            /\ ledgers'[proj.proj_dir] = ledgers[proj.proj_dir])]_vars

\* C20: when the tool of a 4-field dependency line is not `git`, the only
\* registered tool, the parse fails at or before the first such line; if
\* at it and the name of the line is valid and new, with UnknownTool
\* carrying the line number, the name and the tool; every dependency of a
\* successful parse has the tool `git`.
C20_UnknownTool ==
    pc = "parsed" =>
        LET tr == TrimAll(Ls)
            fs == FieldsAll(tr)
            outIdx == OutIdxOf(tr)
            depIdx == DepIdxOf(tr)
            four == {k \in depIdx : Len(fs[k]) = 4}
            unknown == {k \in four : fs[k][2] # <<"g", "i", "t">>}
            Valid(k) ==
                /\ FirstBad(fs[k][1]) = 0
                /\ fs[k][1] # StateFileName
                /\ \A j \in four : j < k => fs[j][1] # fs[k][1]
        IN /\ unknown # {} =>
                LET k == Least(unknown)
                IN /\ ~result.ok
                   /\ result.err.ln_num <= k
                   /\ (result.err.ln_num = k /\ Valid(k)) =>
                        /\ result.err.kind = "UnknownTool"
                        /\ result.err.dep_name = fs[k][1]
                        /\ result.err.tool_name = fs[k][2]
           /\ result.err.kind = "UnknownTool" =>
                /\ result.err.ln_num \in unknown
                /\ result.err.tool_name = fs[result.err.ln_num][2]
           /\ result.ok =>
                \A n \in DOMAIN result.deps :
                    result.deps[n].tool = <<"g", "i", "t">>

C20_Witness ==
    /\ pc = "parsed"
    /\ result.err.kind = "UnknownTool"
    /\ result.err.tool_name = <<"h", "g">>
    /\ result.err.dep_name = <<"b">>
    /\ result.err.ln_num = 6

\* ---------------------------------------------------- the ledger codec
\* tools.get(&tool_name): the tool object registered under a name.
tools_get(tool_name) == IF tool_name = Git THEN "Git{}" ELSE "none"
\* DepTool::name of a tool object.
tool_name_of(tool) == IF tool = "Git{}" THEN Git ELSE <<>>

\* A formatter that does not end the line.
FormatNoNewline(name, dep) ==
    name \o <<" ">> \o tool_name_of(tools_get(dep.tool)) \o <<" ">>
         \o dep.source \o <<" ">> \o dep.version

\* format!("{} {} {} {}\n", cur_dep_name, cur_dep.tool.name(),
\*         cur_dep.source, cur_dep.version)
format_dep_line(name, dep) ==
    name \o <<" ">> \o tool_name_of(tools_get(dep.tool)) \o <<" ">>
         \o dep.source \o <<" ">> \o dep.version \o <<"\n">>

RECURSIVE write_state_file_text(_, _)
\* The bytes write_state_file writes for cur_deps when the HashMap iterates
\* in the order `order`.
write_state_file_text(deps, order) ==
    IF order = <<>> THEN <<>>
    ELSE format_dep_line(Head(order), deps[Head(order)])
            \o write_state_file_text(deps, Tail(order))

\* Names, sources and versions of the manifests whose maps are written:
\* tokens that start with `#`, hold or end with U+00A0, or are `..`.
CodecNames == {<<"a">>, <<"b">>, DotDot, <<"a", "-", "b">>}
CodecSources == {<<"s">>, <<"#", "s">>, <<"nbsp", "s">>, <<"s", "nbsp">>}
CodecVersions == {<<"v">>, <<"#">>, <<"1", ".", "2">>, <<"v", "nbsp", "2">>}
CodecLines ==
    {n \o <<" ">> \o Git \o <<"\t">> \o src \o <<" ">> \o v :
        n \in CodecNames, src \in CodecSources, v \in CodecVersions}
CodecTexts ==
    {Unlines(<<<<"d", "e", "p", "s">>>> \o ls, <<"\n">>, TRUE) :
        ls \in {<<>>} \cup {<<l>> : l \in CodecLines}
               \cup {<<l1, l2>> : l1 \in CodecLines, l2 \in CodecLines}}

\* install_proj_deps holds a map obtained from a successful parse and is
\* about to write it.
InitCodec ==
    /\ cwd = <<>>
    /\ chain = <<>>
    /\ prev = NoFailure
    /\ stderr = <<>>
    /\ \E t \in CodecTexts :
         /\ manifest = t
         /\ parse_deps_conf_text(t).ok
         /\ cur_deps = parse_deps_conf_text(t).deps
    /\ pc = "encode"
    /\ result = NoResult
    /\ dirs = [q \in {} |-> Holds("empty", NoDep)]
    /\ ledgers = [q \in {} |-> <<>>]
    /\ outdirs = {}
    /\ recurse = FALSE
    /\ projs = <<>>
    /\ proj = NoProj
    /\ conf = EmptyMap
    /\ new_deps = EmptyMap
    /\ state_file_exists = FALSE
    /\ acts = <<>>
    /\ act = NoAction
    /\ new_dep = NoDep
    /\ wtodo = {}
    /\ wret = "-"
    /\ runs = 0
    /\ failure = NoFailure
    /\ fetchCnt = [q \in {} |-> 0]
    /\ fetchedRun = {}
    /\ startOk = FALSE
    /\ plan = {}
    /\ ops = NoOps
    /\ snap = NoSnap
    /\ again = FALSE
    /\ topOk = FALSE
    /\ okConf = [q \in {} |-> EmptyMap]
    /\ visited = <<>>
    /\ probed = {}
    /\ started = {}
    /\ processed = {}

\* write_state_file(&state_file_path, &cur_deps), all writes done.
EncodeStep ==
    /\ UNCHANGED <<walk, prev, stderr>>
    /\ pc = "encode"
    /\ \E o \in Orders(DOMAIN cur_deps) :
         ledgers' = (<<>> :> write_state_file_text(cur_deps, o))
    /\ pc' = "written"
    /\ UNCHANGED <<manifest, dirs, outdirs, result, mem, hist>>

\* The next run: `self.parse_deps(&mut state_spec.lines().enumerate())`.
DecodeStep ==
    /\ UNCHANGED <<walk, prev, stderr>>
    /\ pc = "written"
    /\ result' = parse_deps_text(lines(ledgers[<<>>]), 1, <<>>)
    /\ pc' = "decoded"
    /\ UNCHANGED <<disk, mem, hist>>

NextCodec == EncodeStep \/ DecodeStep

SpecCodec == InitCodec /\ [][NextCodec]_vars

\* C21: the text write_state_file produces for a map obtained from a
\* successful parse is parsed by parse_deps without error into the same
\* map: the same names, and for each the same tool, source and version.
C21_RoundTrip ==
    pc = "decoded" =>
        /\ result.ok
        /\ DOMAIN result.deps = DOMAIN cur_deps
        /\ \A n \in DOMAIN cur_deps :
             /\ result.deps[n].tool = cur_deps[n].tool
             /\ result.deps[n].source = cur_deps[n].source
             /\ result.deps[n].version = cur_deps[n].version

\* A map of two dependencies whose tokens start with `#` and hold U+00A0.
C21_Witness ==
    /\ pc = "decoded"
    /\ result.ok
    /\ Cardinality(DOMAIN result.deps) = 2
    /\ \E n \in DOMAIN result.deps :
         /\ result.deps[n].source = <<"#", "s">>
         /\ result.deps[n].version = <<"v", "nbsp", "2">>
    /\ DotDot \in DOMAIN result.deps

\* C22: a project without a ledger file is reconciled from the empty
\* current state (every desired name is planned as an Install); when
\* install_deps returns Ok the ledger file exists; with zero actions and no
\* ledger it was written once and is empty; with zero actions and a ledger
\* it was not written and holds the lines found at the start.
C22_LedgerExists ==
    /\ (Reconciling /\ ~snap.exists) =>
            plan = {Action("Install", n) : n \in DOMAIN conf}
    /\ pc = "reconciled" =>
        LET p == proj.proj_dir
        IN /\ p \in DOMAIN ledgers
           /\ (plan = {} /\ ~snap.exists) => (ops.wr = 1 /\ ledgers[p] = <<>>)
           /\ (plan = {} /\ snap.exists) =>
                (ops.wr = 0 /\ ledgers[p] = snap.lines)

\* A first run on a manifest without dependencies, and a second run on it.
C22_NotRewritten ==
    /\ pc = "reconciled"
    /\ plan = {}
    /\ snap.exists
    /\ runs = 2
    /\ ledgers[<<>>] = <<>>
    /\ ops.wr = 0

\* A project without dependencies and without ledger gets an empty one.
C22_Witness ==
    /\ pc = "reconciled"
    /\ plan = {}
    /\ ~snap.exists
    /\ ops.wr = 1

\* The ledger file of p holds bytes that are not UTF-8.
NotUtf8(p) ==
    \E k \in 1..Len(ledgers[p]) : \E j \in 1..Len(ledgers[p][k]) :
        ledgers[p][k][j] = BadBytes
\* A line of the ledger file of p has not 4 fields or names no known tool.
BadGrammar(p) ==
    \E k \in 1..Len(ledgers[p]) :
        \/ Len(ledgers[p][k]) # 4
        \/ ledgers[p][k][2] # "git"

\* C23: when install pops a project whose manifest is well-formed and
\* whose ledger file exists but is not UTF-8 or breaks the grammar of a
\* dependency line, that step ends the run with an error (the ledger is
\* not taken for an empty one): ConvStateFileUtf8Failed or
\* ParseStateFileFailed unless the read itself failed or the process was
\* killed; no output directory is created, no dependency directory
\* removed or created, nothing fetched and no ledger written.
C23_Step ==
    (/\ pc = "loop"
     /\ projs # <<>>
     /\ ~Malformed(projs[Len(projs)].raw)
     /\ projs[Len(projs)].proj_dir \in DOMAIN ledgers
     /\ \/ NotUtf8(projs[Len(projs)].proj_dir)
        \/ BadGrammar(projs[Len(projs)].proj_dir)) =>
        /\ pc' = "done"
        /\ ~result'.ok
        /\ UNCHANGED <<dirs, ledgers, outdirs, fetchCnt, ops>>
        /\ failure'.op \notin {"kill", "read_state"} =>
             /\ result'.kind = IF NotUtf8(projs[Len(projs)].proj_dir)
                               THEN "ConvStateFileUtf8Failed"
                               ELSE "ParseStateFileFailed"
             /\ result'.nested = projs[Len(projs)].dep_name

\* After such an error nothing of the project was planned or started.
C23_State ==
    failure.op \in {"conv_state", "parse_state"} =>
        /\ pc = "done"
        /\ ~result.ok
        /\ failure.proj_dir \in DOMAIN ledgers
        /\ NotUtf8(failure.proj_dir) \/ BadGrammar(failure.proj_dir)
        /\ started = {}

C23_BadLedgerFatal == [](C23_State) /\ [][C23_Step]_vars

\* A run that stops at a ledger that is not UTF-8, with dependencies
\* installed by the run before.
C23_Witness ==
    /\ pc = "done"
    /\ failure.op = "conv_state"
    /\ result.kind = "ConvStateFileUtf8Failed"
    /\ DOMAIN dirs # {}

\* A run that stops at the ledger of a nested project, cut short by a kill
\* within a write of the run before.
C23_NestedWitness ==
    /\ pc = "done"
    /\ failure.op = "parse_state"
    /\ result.nested # NoName
    /\ ledgers[failure.proj_dir] \notin BadLedgers

\* ------------------------------------------- discovery of the manifest
\* The directories from the root down, of which the working directory is a
\* prefix.
DirNames == <<"home", "proj", "sub", "deep", "er">>
\* fs::read fails with an error other than NotFound (a directory, no
\* permission).
Unreadable == [kind |-> "unreadable", lines |-> <<>>]
\* What may be at <dir>/dpnd.txt: nothing, something unreadable, a manifest
\* with the output directory `deps`, one with the output directory `out/d`.
ChainFiles ==
    {NoFile, Unreadable, ManifestOf(<<>>), Text(<<<<"out", "d">>>>)}

RECURSIVE read_deps_file_at(_)
\* The loop of read_deps_file with `dir` the ancestor of depth k: try_read
\* of <dir>/dpnd.txt, then dir.pop(), which fails at the root.
read_deps_file_at(k) ==
    LET dir == SubSeq(cwd, 1, k)
    IN IF chain[k].kind = "unreadable"
       THEN [kind |-> "Err", dir |-> dir, conts |-> NoFile]
       ELSE IF chain[k].kind # "none"
       THEN [kind |-> "Some", dir |-> dir, conts |-> chain[k]]
       ELSE IF k = 0
       THEN [kind |-> "None", dir |-> <<>>, conts |-> NoFile]
       ELSE read_deps_file_at(k - 1)

RECURSIVE SkipUnreadableAt(_)
\* A walk that goes on to the parent when a manifest cannot be read.
SkipUnreadableAt(k) ==
    IF chain[k].kind \notin {"none", "unreadable"}
    THEN [kind |-> "Some", dir |-> SubSeq(cwd, 1, k), conts |-> chain[k]]
    ELSE IF k = 0
    THEN [kind |-> "None", dir |-> <<>>, conts |-> NoFile]
    ELSE SkipUnreadableAt(k - 1)
SkipUnreadable == SkipUnreadableAt(Len(cwd))

\* read_deps_file(&cwd, &self.deps_file_name)
read_deps_file == read_deps_file_at(Len(cwd))

\* A join onto the working directory.
OutputAtCwd(proj_dir, output_dir) == cwd \o output_dir

\* `let output_dir = proj_dir.join(&conf.output_dir)`
output_dir_path(proj_dir, output_dir) == proj_dir \o output_dir

\* install is about to be run in a working directory below the root.
InitFind ==
    /\ \E d \in 0..MaxUp :
         /\ cwd = SubSeq(DirNames, 1, d)
         /\ chain \in [0..d -> ChainFiles]
    /\ prev = NoFailure
    /\ stderr = <<>>
    /\ pc = "find"
    /\ manifest = NoFile
    /\ result = NoResult
    /\ dirs = [q \in {} |-> Holds("empty", NoDep)]
    /\ ledgers = [q \in {} |-> <<>>]
    /\ outdirs = {}
    /\ recurse = FALSE
    /\ projs = <<>>
    /\ proj = NoProj
    /\ conf = EmptyMap
    /\ cur_deps = EmptyMap
    /\ new_deps = EmptyMap
    /\ state_file_exists = FALSE
    /\ acts = <<>>
    /\ act = NoAction
    /\ new_dep = NoDep
    /\ wtodo = {}
    /\ wret = "-"
    /\ runs = 0
    /\ failure = NoFailure
    /\ fetchCnt = [q \in {} |-> 0]
    /\ fetchedRun = {}
    /\ startOk = FALSE
    /\ plan = {}
    /\ ops = NoOps
    /\ snap = NoSnap
    /\ again = FALSE
    /\ topOk = FALSE
    /\ okConf = [q \in {} |-> EmptyMap]
    /\ visited = <<>>
    /\ probed = {}
    /\ started = {}
    /\ processed = {}

\* The head of install: read_deps_file, and the seeding of the worklist
\* with the project it found.
FindStep ==
    /\ pc = "find"
    /\ LET f == read_deps_file
       IN CASE f.kind = "None" ->
                 /\ Return(Err("NoDepsFileFound", NoName, NoName, "-"))
                 /\ UNCHANGED <<manifest, failure>>
            [] f.kind = "Err" ->
                 /\ Fail("read_deps", NoName, Append(f.dir, deps_file_name),
                         FALSE,
                         Err("ReadDepsFileFailed", NoName, NoName, "-"))
                 /\ UNCHANGED manifest
            [] OTHER ->
                 /\ projs' = <<[proj_dir |-> f.dir, dep_name |-> NoName,
                                raw |-> f.conts]>>
                 /\ manifest' = f.conts
                 /\ pc' = "found"
                 /\ UNCHANGED <<result, recurse, proj, conf, cur_deps,
                                new_deps, state_file_exists, acts, act,
                                new_dep, wtodo, wret, failure>>
    /\ UNCHANGED <<dirs, ledgers, outdirs, runs, fetchCnt, fetchedRun,
                   startOk, plan, ops, snap, again, topOk, okConf, visited,
                   probed, started, processed, walk, prev, stderr>>

\* The first turn of the loop of install up to fs::create_dir_all of the
\* output directory in install_proj_deps.  Here a directory is the
\* sequence of the names from the root.
OutputDirStep ==
    /\ pc = "found"
    /\ LET e == projs[Len(projs)]
           c == parse_deps_conf(e.raw.lines)
       IN /\ c.ok
          /\ outdirs' = {output_dir_path(e.proj_dir, c.output_dir)}
          /\ proj' = e
          /\ projs' = <<>>
          /\ pc' = "resolved"
    /\ UNCHANGED <<manifest, dirs, ledgers, result, recurse, conf, cur_deps,
                   new_deps, state_file_exists, acts, act, new_dep, wtodo,
                   wret, hist, walk, prev, stderr>>

NextFind == FindStep \/ OutputDirStep

SpecFind == InitFind /\ [][NextFind]_vars

\* The depths at which a directory of the chain holds a manifest, and the
\* greatest of a non-empty set of depths.
ManifestDepths == {k \in 0..Len(cwd) : chain[k].kind = "text"}
UnreadableDepths == {k \in 0..Len(cwd) : chain[k].kind = "unreadable"}
Greatest(S) == CHOOSE k \in S : \A j \in S : j <= k

\* C24: when no read on the way up fails, install takes the manifest of
\* the deepest directory on the chain from the root to the working
\* directory that holds one, that directory is the project directory, and
\* the output directory it creates is the output directory of that
\* manifest below that directory; when no directory of the chain holds a
\* manifest install returns NoDepsFileFound and has created, removed and
\* written nothing.
C24_Discovery ==
    pc # "find" =>
        /\ (ManifestDepths = {} /\ UnreadableDepths = {}) =>
             /\ pc = "done"
             /\ result.kind = "NoDepsFileFound"
             /\ outdirs = {}
             /\ DOMAIN dirs = {}
             /\ DOMAIN ledgers = {}
        /\ result.kind = "NoDepsFileFound" => ManifestDepths = {}
        /\ (/\ ManifestDepths # {}
            /\ \A k \in UnreadableDepths : k < Greatest(ManifestDepths)) =>
             LET near == Greatest(ManifestDepths)
                 e == IF pc = "found" THEN projs[1] ELSE proj
             IN /\ pc \in {"found", "resolved"}
                /\ e.proj_dir = SubSeq(cwd, 1, near)
                /\ e.raw = chain[near]
                /\ pc = "resolved" =>
                     outdirs = {SubSeq(cwd, 1, near) \o chain[near].lines[1]}

\* Run two levels below the project, whose parent holds a manifest too.
C24_Witness ==
    /\ pc = "resolved"
    /\ Len(cwd) = 3
    /\ outdirs = {<<"home", "out", "d">>}
    /\ chain[0].kind = "text"
    /\ chain[2].kind = "none"
    /\ chain[3].kind = "none"

\* ------------------------------------------------ the git tool's errors
\* C25: a fetch whose clone fails runs no checkout and fails with
\* RetrieveFailed; a fetch whose clone succeeds and whose checkout fails
\* fails with VersionChangeFailed; either way the run returns FetchFailed
\* with that kind and the name of the dependency being installed; a fetch
\* whose two commands succeed does not fail.
C25_FetchErrors ==
    [][(pc = "fetch" /\ ops'.fetch = ops.fetch + 1) =>
         LET ran == ops'.git
         IN /\ Len(ran) \in 1..2
            /\ ran[1] # "ok" =>
                 /\ Len(ran) = 1
                 /\ result' = Err("FetchFailed", act.name, proj.dep_name,
                                  "RetrieveFailed")
            /\ (Len(ran) = 2 /\ ran[2] # "ok") =>
                 /\ ran[1] = "ok"
                 /\ result' = Err("FetchFailed", act.name, proj.dep_name,
                                  "VersionChangeFailed")
            /\ (Len(ran) = 2 /\ ran[2] = "ok") =>
                 /\ ran[1] = "ok"
                 /\ result' = result
                 /\ pc' = "wopen"]_vars

\* The checkout of a nested dependency failed after its clone.
C25_Witness ==
    /\ pc = "done"
    /\ result.kind = "FetchFailed"
    /\ result.cause = "VersionChangeFailed"
    /\ ops.git = <<"ok", "not_success">>
    /\ result.nested # NoName

\* The clone could not be started.
C25_RetrieveWitness ==
    /\ pc = "done"
    /\ result.kind = "FetchFailed"
    /\ result.cause = "RetrieveFailed"
    /\ ops.git = <<"start_failed">>

\* -------------------------------------------------------------- removal
\* Remove(name) has been popped and remove_dir_all did not fail.
RemovalStep ==
    /\ pc = "exec"
    /\ acts[Len(acts)].kind = "Remove"
    /\ pc' = "wopen"

\* The rewrite of the ledger that follows the removal of act.name returns.
RemovalWritten ==
    /\ pc \in {"wopen", "wline"}
    /\ wret = "after_remove"
    /\ act.kind = "Remove"
    /\ pc' \in {"exec", "reconciled"}

\* C26: Remove(name) leaves nothing at output_dir/name or below it, whether
\* or not the directory was there, and goes on to rewrite the ledger; when
\* that rewrite returns the ledger exists, has exactly the lines of the
\* dependencies still recorded, none of them for name, and no line at all
\* when name was the last one.
C26_Removal ==
    [][/\ RemovalStep =>
            LET n == acts[Len(acts)].name
                dir == Append(proj.proj_dir, n)
            IN /\ \A q \in DOMAIN dirs' : ~IsPrefix(dir, q)
               /\ \A q \in DOMAIN ledgers' : ~IsPrefix(dir, q)
               /\ n \notin DOMAIN cur_deps'
               /\ result' = result
               /\ wret' = "after_remove"
       /\ RemovalWritten =>
            LET p == proj.proj_dir
            IN /\ p \in DOMAIN ledgers'
               /\ Len(ledgers'[p]) = Cardinality(DOMAIN cur_deps)
               /\ \A k \in 1..Len(ledgers'[p]) :
                     /\ ledgers'[p][k][1] # act.name
                     /\ ledgers'[p][k][1] \in DOMAIN cur_deps
                     /\ ledgers'[p][k] =
                          DepLine(ledgers'[p][k][1],
                                  cur_deps[ledgers'[p][k][1]])
               /\ Append(p, act.name) \notin DOMAIN dirs'
               /\ result' = result]_vars

\* The last dependency was removed: the run succeeded, the ledger that
\* listed it is there with no line and its directory is gone.
C26_Witness ==
    /\ pc = "done"
    /\ result.ok
    /\ plan # {}
    /\ \A a \in plan : a.kind = "Remove"
    /\ snap.lines # <<>>
    /\ <<>> \in DOMAIN ledgers
    /\ ledgers[<<>>] = <<>>
    /\ DOMAIN dirs = {}

\* The directory of the removed dependency was already absent.
C26_AbsentWitness ==
    /\ pc = "done"
    /\ result.ok
    /\ plan # {}
    /\ \A a \in plan : a.kind = "Remove"
    /\ ops.rm = 0
    /\ ledgers[<<>>] = <<>>

\* ------------------------------------------- a crash within a rewrite
\* The lines of L that read as the entry of a dependency of project p which
\* the directories D do not hold at the tool, source and version of the
\* line.
WrongEntries(L, D, p) ==
    {k \in 1..Len(L) :
        /\ Len(L[k]) = 4
        /\ ~ (/\ Append(p, L[k][1]) \in DOMAIN D
              /\ D[Append(p, L[k][1])] =
                   Holds("ok", [tool |-> L[k][2], source |-> L[k][3],
                                version |-> L[k][4]]))}

\* The process dies in write_state_file after the truncation.
KilledInRewrite ==
    /\ pc = "wline"
    /\ pc' = "done"
    /\ failure'.op = "kill"

\* C27: when the process is killed while write_state_file is rewriting the
\* ledger, after the truncation, between or within the writes of its lines,
\* no line of the ledger left on disk is the entry of a dependency that is
\* not installed at the tool, source and version of the line.
C27_NeverWrong ==
    [][KilledInRewrite =>
         WrongEntries(ledgers'[proj.proj_dir], dirs', proj.proj_dir) = {}]_vars

\* What does hold: when the ledger matched the disk as install_deps began
\* and the process is killed between the writes of two lines, the ledger
\* left on disk has no wrong entry.
C27_BetweenLines ==
    [][(KilledInRewrite /\ startOk /\ ledgers' = ledgers) =>
         WrongEntries(ledgers'[proj.proj_dir], dirs', proj.proj_dir) = {}]_vars

\* Killed within the write of the line of a dependency just installed: the
\* ledger ends in its entry at a version that was never fetched.
C27_CutLineReached ==
    /\ pc = "done"
    /\ failure.op = "kill"
    /\ <<>> \in DOMAIN ledgers
    /\ \E k \in 1..Len(ledgers[<<>>]) :
         /\ Len(ledgers[<<>>][k]) = 4
         /\ ledgers[<<>>][k][4] = "v"
    /\ startOk

\* ------------------------------------------------------ fetch discipline
\* The times the tool was invoked on output_dir/n of the project at work.
Fetches(n) ==
    IF Append(proj.proj_dir, n) \in DOMAIN fetchCnt
    THEN fetchCnt[Append(proj.proj_dir, n)] ELSE 0

C28_State ==
    Reconciling =>
        /\ \A n \in Names \cup {CurDir} :
             /\ Fetches(n) <= 1
             /\ Fetches(n) = 1 => Action("Install", n) \in plan
             /\ (Action("Install", n) \in plan /\ n \in processed) =>
                    Fetches(n) = 1
        /\ pc = "fetch" =>
             LET dir == Append(proj.proj_dir, act.name)
             IN /\ act \in plan
                /\ act.kind = "Install"
                /\ Fetches(act.name) = 0
                /\ new_dep = conf[act.name]
                /\ dir \in DOMAIN dirs
                /\ dirs[dir].state = "empty"
                /\ \A q \in DOMAIN dirs \cup DOMAIN ledgers \cup outdirs :
                      ~(IsPrefix(dir, q) /\ q # dir)
                /\ dir \notin outdirs

\* An invocation of the tool: it is handed new_dep and output_dir/name, and
\* what it leaves there is the tree of new_dep's source at new_dep's
\* version, whole or in part.
C28_Step ==
    (pc = "fetch" /\ ops'.fetch = ops.fetch + 1) =>
        LET dir == Append(proj.proj_dir, act.name)
        IN /\ fetchCnt'[dir] = 1
           /\ \A q \in DOMAIN fetchCnt' \ {dir} :
                 q \in DOMAIN fetchCnt /\ fetchCnt'[q] = fetchCnt[q]
           /\ dirs'[dir].state \in {"ok", "partial", "empty"}
           /\ dirs'[dir].state # "empty" => dirs'[dir].dep = conf[act.name]
           /\ \A q \in DOMAIN dirs' \ {dir} :
                 q \in DOMAIN dirs /\ dirs'[q] = dirs[q]

\* C28: while a project is reconciled the tool is invoked once for every
\* Install of the plan that completes and at most once for any name, never
\* for a name the plan removes or leaves alone; it is invoked with the
\* source and version the manifest gives the name and with the directory
\* output_dir/name, which at that moment exists and holds nothing.
C28_FetchDiscipline == [](C28_State) /\ [][C28_Step]_vars

\* A run that reinstalled one dependency at a new version, removed one and
\* left nothing else: one fetch, of the reinstalled name, after its old
\* directory was wiped.
C28_Witness ==
    /\ pc = "done"
    /\ result.ok
    /\ ops.fetch = 1
    /\ ops.rm = 2
    /\ \E a \in plan : a.kind = "Remove"
    /\ \E a \in plan : a.kind = "Install" /\ a.name \in DOMAIN snap.children

\* ----------------------------------------------- unchanged dependencies
\* The names the ledger recorded, when install_deps began, with the tool,
\* source and version the manifest gives them.
UnchangedNames ==
    LET was == parse_deps(snap.lines, 1).deps
    IN {n \in DOMAIN was \cap DOMAIN conf : was[n] = conf[n]}

\* install_deps is at work on the project `proj`.
Applying == pc \in {"exec", "wopen", "wline", "mkdir", "fetch"}

\* Nothing at path d or below it changes in this step.
TreeKept(d) ==
    /\ \A q \in DOMAIN dirs \cup DOMAIN dirs' :
          IsPrefix(d, q) =>
              /\ q \in DOMAIN dirs
              /\ q \in DOMAIN dirs'
              /\ dirs'[q] = dirs[q]
    /\ \A q \in DOMAIN ledgers \cup DOMAIN ledgers' :
          IsPrefix(d, q) =>
              /\ q \in DOMAIN ledgers
              /\ q \in DOMAIN ledgers'
              /\ ledgers'[q] = ledgers[q]
    /\ \A q \in outdirs \cup outdirs' :
          IsPrefix(d, q) => (q \in outdirs /\ q \in outdirs')

\* write_state_file returns Ok in this step.
RewriteDone ==
    /\ pc \in {"wopen", "wline"}
    /\ pc' \in {"exec", "mkdir", "reconciled"}

C29_State ==
    Applying =>
        \A n \in UnchangedNames :
            /\ \A a \in plan : a.name # n
            /\ n \notin started
            /\ Fetches(n) = 0
            /\ n \in DOMAIN cur_deps
            /\ cur_deps[n] = conf[n]

C29_Step ==
    Applying =>
        \A n \in UnchangedNames :
            /\ TreeKept(Append(proj.proj_dir, n))
            /\ RewriteDone =>
                 \E k \in 1..Len(ledgers'[proj.proj_dir]) :
                     ledgers'[proj.proj_dir][k] = DepLine(n, conf[n])

\* C29: while install_deps reconciles a project, whether it ends in success
\* or is aborted, a name the ledger recorded with the very tool, source and
\* version the manifest gives it gets no action, its directory
\* output_dir/name and all below it are neither deleted nor created nor
\* fetched into, and every rewrite of the ledger that completes holds its
\* line.
C29_UnchangedUntouched == [](C29_State) /\ [][C29_Step]_vars

\* The same, for plans that install no dependency named `.`.
C29_Step_NoCurDir ==
    (Action("Install", CurDir) \notin plan) => C29_Step

C29_UntouchedButCurDir == [](C29_State) /\ [][C29_Step_NoCurDir]_vars

\* A second dependency was added beside an unchanged one and the run
\* succeeded.
C29_Witness ==
    /\ pc = "done"
    /\ result.ok
    /\ ops.fetch = 1
    /\ Len(snap.lines) = 1
    /\ Len(ledgers[<<>>]) = 2
    /\ ledgers[<<>>][1] = snap.lines[1]
    /\ Action("Install", CurDir) \notin plan

\* -------------------------------------- a regular file at output_dir/name
\* Install(name) is next and a regular file is at output_dir/name.
Collides ==
    /\ pc = "exec"
    /\ acts[Len(acts)].kind = "Install"
    /\ IsFile(Append(proj.proj_dir, acts[Len(acts)].name))

\* C30, as stated: when a regular file is at output_dir/name as
\* Install(name) is applied, the reconciliation fails with
\* CreateDepOutputDirFailed and with no other error.
C30_CouldNotCreate ==
    [][(Collides /\ failure'.op # "kill") =>
          result'.kind \in {"none", "CreateDepOutputDirFailed"}]_vars

\* C30: when a regular file is at output_dir/name as Install(name) is
\* applied, the reconciliation fails at once in the removal of the old
\* directory, with RemoveOldDepOutputDirFailed for name; the creation of
\* the directory is never reached, and the disk is as it was.
C30_FailsInRemoval ==
    [][(Collides /\ failure'.op # "kill") =>
          /\ pc' = "done"
          /\ failure'.op = "remove"
          /\ result' = Err("RemoveOldDepOutputDirFailed",
                           acts[Len(acts)].name, proj.dep_name, "-")
          /\ ops' = ops
          /\ disk' = disk]_vars

\* The run failed on the file the user had put at deps/<name>.
C30_Witness ==
    /\ pc = "done"
    /\ failure.op = "remove"
    /\ ~failure.injected
    /\ failure.dep_name # CurDir
    /\ IsFile(<<failure.dep_name>>)
    /\ result.kind = "RemoveOldDepOutputDirFailed"
    /\ Action("Install", failure.dep_name) \in plan

\* C31: when output_dir/name is a regular file as Install(name) is applied,
\* the run ends in that step with RemoveOldDepOutputDirFailed, the error
\* names the dependency and the path output_dir/name; no ledger is written,
\* no directory created and no tool invoked in the step, and the file is
\* still at output_dir/name afterwards.
C31_FileLeftInPlace ==
    [][(Collides /\ failure'.op # "kill") =>
          LET n == acts[Len(acts)].name
              dir == Append(proj.proj_dir, n)
          IN /\ result'.kind = "RemoveOldDepOutputDirFailed"
             /\ result'.dep_name = n
             /\ failure'.op = "remove"
             /\ Append(failure'.proj_dir, failure'.dep_name) = dir
             /\ ledgers' = ledgers
             /\ ops'.wr = ops.wr
             /\ ops'.mk = ops.mk
             /\ ops'.fetch = ops.fetch
             /\ fetchCnt' = fetchCnt
             /\ dir \in DOMAIN dirs'
             /\ dirs'[dir] = Holds("file", NoDep)]_vars

\* The case of the test: the first run, for a project whose output
\* directory holds only the file; no ledger was ever written.
C31_Witness ==
    /\ pc = "done"
    /\ runs = 1
    /\ failure.op = "remove"
    /\ ~failure.injected
    /\ result.kind = "RemoveOldDepOutputDirFailed"
    /\ dirs = (<<failure.dep_name>> :> Holds("file", NoDep))
    /\ DOMAIN ledgers = {}
    /\ ops.wr = 0

\* ------------------------------------------- names in a ledger line
\* Every line of the ledger has four fields and a registered tool, and no
\* name is on two lines.
FieldsAndToolsOk(ls) ==
    /\ from_utf8_ok(ls)
    /\ \A k \in 1..Len(ls) : Len(ls[k]) = 4 /\ ls[k][2] \in tools
    /\ \A j, k \in 1..Len(ls) : ls[j][1] = ls[k][1] => j = k

\* install_proj_deps is about to read the ledger of the project on top of
\* the worklist, whose manifest reads and parses.
LedgerToDecode ==
    /\ pc = "loop"
    /\ projs # <<>>
    /\ projs[Len(projs)].raw.kind = "text"
    /\ parse_deps_conf(projs[Len(projs)].raw.lines).ok

\* C32, as stated: a ledger whose lines have four fields and a registered
\* tool is accepted into the current state whatever the names on its lines:
\* unless a step fails for an outside reason, the run goes on to plan with
\* one entry per line.
C32_NamesTrusted ==
    [][(/\ LedgerToDecode
        /\ FieldsAndToolsOk(LedgerLines(projs[Len(projs)].proj_dir))
        /\ ~failure'.injected) =>
          /\ result'.kind # "ParseStateFileFailed"
          /\ pc' # "done"
          /\ DOMAIN cur_deps' =
               {LedgerLines(projs[Len(projs)].proj_dir)[k][1] :
                  k \in 1..Len(LedgerLines(projs[Len(projs)].proj_dir))}]_vars

\* What the code does: the ledger is parsed by parse_deps, the parser of
\* the manifest's dependency lines, and a name that parser refuses ends the
\* run with ParseStateFileFailed before anything is planned or changed.
C32_NamesValidated ==
    [][(/\ LedgerToDecode
        /\ LedgerLines(projs[Len(projs)].proj_dir) \in OddNameLedgers
        /\ ~failure'.injected) =>
          /\ pc' = "done"
          /\ result'.kind = "ParseStateFileFailed"
          /\ result'.cause \in {"DepNameContainsInvalidChar",
                                "ReservedDepName"}
          /\ disk' = disk]_vars

\* A run refused the ledger for the name on its line.
C32_RefusedReached ==
    /\ pc = "done"
    /\ result.kind = "ParseStateFileFailed"
    /\ result.cause = "ReservedDepName"
    /\ ledgers[<<>>] \in OddNameLedgers

\* ----------------------------------------- the run after a failed fetch
\* install_deps is at work on the project in which the run before ended
\* with the failed fetch of prev.dep_name, under the same manifest.
Retrying ==
    /\ prev.op = "fetch"
    /\ Reconciling
    /\ proj.proj_dir = prev.proj_dir
    /\ prev.dep_name \in DOMAIN conf

\* As install_deps began, the ledger had no entry for n and, n apart, its
\* names were the dependency directories, each holding the tree of its
\* line: what the failed fetch of n leaves of a ledger that matched.
SnapMatchesBut(n) ==
    LET was == parse_deps(snap.lines, 1)
    IN /\ was.ok
       /\ n \notin DOMAIN was.deps
       /\ DOMAIN snap.children \ {n} = DOMAIN was.deps
       /\ \A k \in DOMAIN was.deps :
             snap.children[k] = Holds("ok", was.deps[k])

\* C33: in the run that follows a run aborted by the failed fetch of N,
\* with the same manifest, the plan of that project holds Install(N); the
\* tool is invoked for N on a directory that exists and holds nothing, what
\* the failed fetch left having been wiped; and when install_deps returns
\* Ok the ledger parses to the desired map and the dependency directories
\* are the desired names, each holding the tree of its desired triple.
C33_Converges ==
    (Retrying /\ SnapMatchesBut(prev.dep_name)) =>
        LET p == proj.proj_dir
            N == prev.dep_name
        IN /\ Action("Install", N) \in plan
           /\ (pc = "fetch" /\ act.name = N) =>
                 /\ dirs[Append(p, N)] = Holds("empty", NoDep)
                 /\ \A q \in DOMAIN dirs \cup DOMAIN ledgers \cup outdirs :
                       ~(IsPrefix(Append(p, N), q) /\ q # Append(p, N))
           /\ pc = "reconciled" =>
                 /\ parse_deps(LedgerLines(p), 1).ok
                 /\ LedgerMap(p) = conf
                 /\ Children(p) = DOMAIN conf
                 /\ \A n \in DOMAIN conf :
                       dirs[Append(p, n)] = Holds("ok", conf[n])

\* The second run found what the failed checkout had left of N, fetched N
\* anew and returned Ok.
C33_Witness ==
    /\ pc = "done"
    /\ result.ok
    /\ runs = 2
    /\ prev.op = "fetch"
    /\ prev.proj_dir = <<>>
    /\ prev.dep_name \in DOMAIN snap.children
    /\ snap.children[prev.dep_name].state = "partial"
    /\ dirs[<<prev.dep_name>>].state = "ok"
    /\ Cardinality(DOMAIN dirs) >= 2

\* The same in a nested project.
C33_NestedWitness ==
    /\ pc = "reconciled"
    /\ Retrying
    /\ SnapMatchesBut(prev.dep_name)
    /\ prev.proj_dir # <<>>

\* ----------------------------------------------- an unreadable manifest
\* The depths of the chain at which <dir>/dpnd.txt is a file or cannot be
\* read.
OccupiedDepths == ManifestDepths \cup UnreadableDepths

\* C34: when the deepest directory of the chain that has something at its
\* manifest path has something that cannot be read as a file, install
\* returns ReadDepsFileFailed for the manifest path of that directory: it
\* neither takes the manifest of an ancestor nor returns NoDepsFileFound,
\* and it changes nothing on disk.
C34_StopsAtUnreadable ==
    (/\ pc # "find"
     /\ OccupiedDepths # {}
     /\ Greatest(OccupiedDepths) \in UnreadableDepths) =>
        /\ pc = "done"
        /\ result.kind = "ReadDepsFileFailed"
        /\ failure.op = "read_deps"
        /\ failure.proj_dir =
             Append(SubSeq(cwd, 1, Greatest(OccupiedDepths)), deps_file_name)
        /\ projs = <<>>
        /\ outdirs = {}
        /\ DOMAIN dirs = {}
        /\ DOMAIN ledgers = {}

\* The manifest path of the working directory is unreadable and both the
\* parent and the root hold a manifest.
C34_Witness ==
    /\ pc = "done"
    /\ result.kind = "ReadDepsFileFailed"
    /\ Len(cwd) = 2
    /\ chain[2].kind = "unreadable"
    /\ chain[1].kind = "text"
    /\ chain[0].kind = "text"
    /\ failure.proj_dir = <<"home", "proj", deps_file_name>>

\* --------------------------------------------------- path containment
\* What this step deletes or creates of the dependency directories.
Touched == (DOMAIN dirs \ DOMAIN dirs') \cup (DOMAIN dirs' \ DOMAIN dirs)

\* Every directory the step deletes or creates is one direct child of the
\* output directory of the project at work, or lies below that child, and
\* the step deletes neither the output directory nor the ledger in it.
StepContained ==
    LET p == proj.proj_dir
    IN /\ \E n \in Names : \A q \in Touched : IsPrefix(Append(p, n), q)
       /\ p \in DOMAIN ledgers => p \in DOMAIN ledgers'
       /\ p \in outdirs => p \in outdirs'

\* C35: for every manifest the parser accepts, `.` among its names or not,
\* every step of install_deps deletes or creates only a direct child of
\* the output directory, and never the output directory or the ledger.
C35_Contained == [][Applying => StepContained]_vars

\* What does hold: the steps of a plan that installs no dependency named
\* `.` are contained.
C35_ContainedButCurDir ==
    [][(Applying /\ Action("Install", CurDir) \notin plan) =>
          StepContained]_vars

\* Install(`.`) deleted a ledger and the directories of two dependencies.
C35_EscapeReached ==
    /\ pc = "done"
    /\ failure.op = "remove"
    /\ failure.dep_name = CurDir
    /\ snap.exists
    /\ <<>> \notin DOMAIN ledgers
    /\ DOMAIN snap.children # {}
    /\ DOMAIN dirs = {}

\* ---------------------------------------------------------- action order
\* C36: while install_deps works through a plan, the actions still to pop
\* are Installs followed by Removes, popped from the end; no Install has
\* been started while a Remove of the plan is not complete; and at most
\* one action has been started and is not complete.
C36_ActionOrder ==
    Reconciling =>
        /\ \A i, j \in 1..Len(acts) :
              (acts[i].kind = "Remove" /\ acts[j].kind = "Install") => j < i
        /\ \A a \in plan : \A r \in plan :
              (a.kind = "Install" /\ a.name \in started /\ r.kind = "Remove")
                  => r.name \in processed
        /\ Cardinality(started \ processed) <= 1
        /\ \A k \in 1..Len(acts) : acts[k].name \notin started
        /\ \A a \in plan :
              a.name \in started \/ \E k \in 1..Len(acts) : acts[k] = a

\* The tool is at work for an Install, one more Install waits, and the
\* Remove of the plan is complete.
C36_Witness ==
    /\ pc = "fetch"
    /\ Len(acts) = 1
    /\ acts[1].kind = "Install"
    /\ \E r \in plan : r.kind = "Remove" /\ r.name \in processed
    /\ Cardinality(plan) = 3

\* ------------------------------------------- the executor's assertion
\* C37: every Install still to pop, and the Install being applied until
\* its directory is created, names a dependency that is in new_deps, the
\* executor's copy of the desired map: new_deps.remove finds it, and no run
\* ends in the panic of install_deps.
C37_NoPanic ==
    /\ failure.op # "panic"
    /\ result.kind # "panic"
    /\ Reconciling =>
         /\ \A k \in 1..Len(acts) :
               acts[k].kind = "Install" => acts[k].name \in DOMAIN new_deps
         /\ (pc \in {"wopen", "wline", "mkdir"} /\ wret = "after_remove"
             /\ act.kind = "Install") =>
               /\ act.name \in DOMAIN new_deps
               /\ new_deps[act.name] = conf[act.name]

\* new_deps.remove is about to be called for the second Install of a plan:
\* the first is gone from new_deps.
C37_Witness ==
    /\ pc = "mkdir"
    /\ act.kind = "Install"
    /\ act.name \in DOMAIN new_deps
    /\ Cardinality(DOMAIN new_deps) < Cardinality(DOMAIN conf)
    /\ \E r \in plan : r.kind = "Remove"

\* ------------------------------------- the message for invalid UTF-8
\* The bytes of a manifest: 0x00 is valid UTF-8 on its own, 0xa0 is a
\* continuation byte and valid nowhere but after a lead byte.
ByteOk == 0
ByteBad == 160
RawBytes ==
    UNION {[1..n -> {ByteOk, ByteBad}] : n \in 1..MaxBytes}

\* FromUtf8Error::utf8_error().valid_up_to(): the count of the leading
\* bytes that are valid UTF-8.
valid_up_to(bytes) ==
    IF \A k \in 1..Len(bytes) : bytes[k] = ByteOk THEN Len(bytes)
    ELSE Least({k \in 1..Len(bytes) : bytes[k] # ByteOk}) - 1

\* Display of a usize: its decimal digits.
Decimal(n) == <<"0", "1", "2", "3", "4", "5", "6", "7", "8", "9">>[n + 1]

\* A rendering that hands the arguments to format! in the order of the
\* placeholders.
RenderInOrder(path, dep_name, up_to) ==
    IF dep_name # NoName
    THEN <<path, ": This nested dependency file (for '", dep_name,
           "') contains an invalid UTF-8 sequence after byte ",
           Decimal(up_to)>>
    ELSE <<path, ": This dependency file contains an invalid UTF-8 sequence after byte ",
           Decimal(up_to)>>

\* render_install_error for ConvDepsFileUtf8Failed: the text of the format
\* string with each `{}` replaced by the next argument of format!, which
\* for a nested manifest are the path, valid_up_to() and the name.
render_conv_utf8(path, dep_name, up_to) ==
    IF dep_name # NoName
    THEN <<path, ": This nested dependency file (for '", Decimal(up_to),
           "') contains an invalid UTF-8 sequence after byte ",
           dep_name>>
    ELSE <<path, ": This dependency file contains an invalid UTF-8 sequence after byte ",
           Decimal(up_to)>>

\* The manifest path of the project of dependency `dep_name`, as the
\* parts of the path the message shows.
DepsFilePathOf(dep_name) ==
    IF dep_name = NoName THEN <<deps_file_name>>
    ELSE <<"deps", dep_name, deps_file_name>>

\* A manifest that is not valid UTF-8 is on top of the worklist: that of
\* the top-level project or that of a nested dependency.
InitRender ==
    /\ cwd = <<>>
    /\ chain = <<>>
    /\ prev = NoFailure
    /\ stderr = <<>>
    /\ \E b \in RawBytes, n \in Names \cup {NoName} :
         /\ \E k \in 1..Len(b) : b[k] = ByteBad
         /\ projs = <<[proj_dir |-> IF n = NoName THEN <<>> ELSE <<n>>,
                       dep_name |-> n,
                       raw |-> [kind |-> "badutf8", lines |-> <<>>,
                                bytes |-> b]]>>
    /\ pc = "loop"
    /\ manifest = NoFile
    /\ result = NoResult
    /\ dirs = [q \in {} |-> Holds("empty", NoDep)]
    /\ ledgers = [q \in {} |-> <<>>]
    /\ outdirs = {}
    /\ recurse = TRUE
    /\ proj = NoProj
    /\ conf = EmptyMap
    /\ cur_deps = EmptyMap
    /\ new_deps = EmptyMap
    /\ state_file_exists = FALSE
    /\ acts = <<>>
    /\ act = NoAction
    /\ new_dep = NoDep
    /\ wtodo = {}
    /\ wret = "-"
    /\ runs = 1
    /\ failure = NoFailure
    /\ fetchCnt = [q \in {} |-> 0]
    /\ fetchedRun = {}
    /\ startOk = FALSE
    /\ plan = {}
    /\ ops = NoOps
    /\ snap = NoSnap
    /\ again = FALSE
    /\ topOk = FALSE
    /\ okConf = [q \in {} |-> EmptyMap]
    /\ visited = <<>>
    /\ probed = {}
    /\ started = {}
    /\ processed = {}

\* install pops the entry and String::from_utf8 fails: it returns
\* ConvDepsFileUtf8Failed with the error of the conversion (kept here as
\* its valid_up_to), the name of the dependency and the path.
ConvStep ==
    /\ pc = "loop"
    /\ projs # <<>>
    /\ LET e == projs[Len(projs)]
       IN /\ e.raw.kind = "badutf8"
          /\ Fail("decode", NoName, e.proj_dir, FALSE,
                  Err("ConvDepsFileUtf8Failed", NoName, e.dep_name,
                      valid_up_to(e.raw.bytes)))
    /\ UNCHANGED <<disk, runs, fetchCnt, fetchedRun, startOk, plan, ops, snap,
                   again, topOk, okConf, visited, probed, started, processed,
                   walk, prev, stderr>>

\* main renders the error install returned and prints it.
RenderStep ==
    /\ pc = "done"
    /\ result.kind = "ConvDepsFileUtf8Failed"
    /\ stderr = <<>>
    /\ stderr' = render_conv_utf8(DepsFilePathOf(result.nested),
                                  result.nested, result.cause)
    /\ pc' = "exit"
    /\ UNCHANGED <<disk, result, mem, hist, walk, prev>>

NextRender == ConvStep \/ RenderStep

SpecRender == InitRender /\ [][NextRender]_vars

\* C38: the message main prints for a nested manifest that is not valid
\* UTF-8 has the name of the owning dependency between "(for '" and "')",
\* and after "after byte" the count of the leading valid bytes, which is
\* what the message for a top-level manifest ends with.
C38_NestedMessage ==
    (pc = "exit" /\ result.nested # NoName) =>
        /\ Len(stderr) = 5
        /\ stderr[3] = result.nested
        /\ stderr[5] = Decimal(result.cause)

\* What does hold: the top-level message ends with the count of the
\* leading valid bytes.
C38_TopLevelMessage ==
    (pc = "exit" /\ result.nested = NoName) =>
        /\ Len(stderr) = 3
        /\ stderr[1] = <<deps_file_name>>
        /\ stderr[3] = Decimal(result.cause)

\* The nested message as the code prints it: the count in the place of
\* the name, the name in the place of the count.
C38_SwappedReached ==
    /\ pc = "exit"
    /\ result.nested = "a"
    /\ result.cause = 2
    /\ stderr[3] = "2"
    /\ stderr[5] = "a"

====
